---------------------------- MODULE Spec2Model ----------------------------
(***************************************************************************)
(* The tape machine of ruinfuck: the instruction tree (vm.rs, Node), the   *)
(* tree-walking interpreter (vm.rs, run_block / Node::execute), the        *)
(* optimizer passes (optimizer.rs), the bracket parser (parser.rs) and the *)
(* run_code entry point of main.rs.                                        *)
(*                                                                         *)
(* The tape [u8; NUMBER_OF_CELLS] is held as the function of its non-zero  *)
(* cells: a cell outside the function's domain holds 0.  Two tapes are     *)
(* equal exactly when these functions are equal.                           *)
(***************************************************************************)
EXTENDS Integers, Sequences, FiniteSets, TLC

(***************************************************************************)
(* Program constants.                                                      *)
(***************************************************************************)
\* vm.rs:5  const NUMBER_OF_CELLS: usize = u16::max_value() as usize;
NUMBER_OF_CELLS == 65535

\* vm.rs:98  the range of u16, in which offset_index wraps
U16_RANGE == 65536

\* vm.rs:122  the range of u8, in which cell arithmetic wraps
U8_RANGE == 256

(***************************************************************************)
(* Bounds of the model.                                                    *)
(***************************************************************************)
\* loop-body entries and scan steps followed within one run_block invocation
MaxIters == 4

\* bytes the output sink accepts before a write fails (largest value drawn)
MaxRoom == 1

\* characters of a source text
MaxText == 4

\* characters of a source text that is optimized under every choice of the
\* option switches
MaxOptText == 3

\* longest line typed at the prompt of main.rs
MaxLine == 3

\* longest first fragment of a two-line session
MaxFragment == 2

\* longest loop body handed to CollapseSimpleLoops
MaxBody == 3

\* longest instruction sequence handed to a single pass
MaxSeq == 3

(***************************************************************************)
(* vm.rs:70-83  enum Node                                                  *)
(***************************************************************************)
Shift(i) == [op |-> "Shift", v |-> i]

Inc(i, offset, move_pointer) ==
    [op |-> "Inc", v |-> i, offset |-> offset, move_pointer |-> move_pointer]

Dec(i, offset, move_pointer) ==
    [op |-> "Dec", v |-> i, offset |-> offset, move_pointer |-> move_pointer]

Mul(mul_value, into, offset, move_pointer) ==
    [op |-> "Mul", v |-> mul_value, into |-> into, offset |-> offset,
     move_pointer |-> move_pointer]

Assign(i, offset, move_pointer) ==
    [op |-> "Assign", v |-> i, offset |-> offset, move_pointer |-> move_pointer]

Scan(interval) == [op |-> "Scan", v |-> interval]

Out(offset, move_pointer) ==
    [op |-> "Out", offset |-> offset, move_pointer |-> move_pointer]

In(offset, move_pointer) ==
    [op |-> "In", offset |-> offset, move_pointer |-> move_pointer]

Conditional(body) == [op |-> "Conditional", body |-> body]

Comment(c) == [op |-> "Comment", c |-> c]

(***************************************************************************)
(* The tape.                                                               *)
(***************************************************************************)
\* vm.rs:17  cells: [0; NUMBER_OF_CELLS]
ZeroTape == << >>

\* s.cells[i] for an index inside the array
Load(cells, i) == IF i \in DOMAIN cells THEN cells[i] ELSE 0

\* s.cells[i] = v for an index inside the array
Store(cells, i, v) ==
    IF v = 0
    THEN [j \in (DOMAIN cells) \ {i} |-> cells[j]]
    ELSE [j \in (DOMAIN cells) \cup {i} |-> IF j = i THEN v ELSE cells[j]]

\* the bounds check of an array index: s.cells[i] panics when it fails
InBounds(i) == i >= 0 /\ i < NUMBER_OF_CELLS

(***************************************************************************)
(* vm.rs:97-99  offset_index                                               *)
(***************************************************************************)
\* `x as u16` of an integer
AsU16(x) == x % U16_RANGE

offset_index(pos, offset) == (AsU16(pos) + AsU16(offset)) % U16_RANGE

\* u8::wrapping_add, wrapping_sub, wrapping_mul
wrapping_add(a, b) == (a + b) % U8_RANGE

wrapping_sub(a, b) == (a - b) % U8_RANGE

wrapping_mul(a, b) == (a * b) % U8_RANGE

\* i16::abs
Abs(x) == IF x < 0 THEN -x ELSE x


(***************************************************************************)
(* vm.rs:101-199  Node::execute, the instructions that are not loops.      *)
(* A machine m is the State (pos, cells), the input source (stdin: the     *)
(* bytes not yet read), the output sink (stdout: the bytes written, room:  *)
(* the number of bytes it still accepts) and the result of the last        *)
(* instruction: "Ok", "ReadError", "WriteError", or "Panic" when an array  *)
(* index failed its bounds check.                                          *)
(***************************************************************************)
Machine(pos, cells, stdin, stdout, room) ==
    [pos |-> pos, cells |-> cells, stdin |-> stdin, stdout |-> stdout,
     room |-> room, result |-> "Ok"]

Fail(m, error) == [m EXCEPT !.result = error]

\* if move_pointer { s.pos = pos; }
MovePointer(m, node, p) == IF node.move_pointer THEN [m EXCEPT !.pos = p] ELSE m

\* vm.rs:115-118
execute_Shift(node, m) == [m EXCEPT !.pos = offset_index(m.pos, node.v)]

\* vm.rs:119-127
execute_Inc(node, m) ==
    LET p == offset_index(m.pos, node.offset) IN
    IF ~InBounds(p) THEN Fail(m, "Panic")
    ELSE MovePointer(
           [m EXCEPT !.cells = Store(@, p, wrapping_add(Load(@, p), node.v))],
           node, p)

\* vm.rs:128-136
execute_Dec(node, m) ==
    LET p == offset_index(m.pos, node.offset) IN
    IF ~InBounds(p) THEN Fail(m, "Panic")
    ELSE MovePointer(
           [m EXCEPT !.cells = Store(@, p, wrapping_sub(Load(@, p), node.v))],
           node, p)

\* execute_Mul as a move: the source cell is cleared once it has been added
\* into the destination
execute_Mul_consume(node, m) ==
    LET p        == offset_index(m.pos, node.offset)
        into_pos == offset_index(p, node.into)
    IN  IF ~InBounds(p) \/ ~InBounds(into_pos) THEN Fail(m, "Panic")
        ELSE LET v    == Load(m.cells, p)
                 abs  == Abs(node.v) % U8_RANGE
                 into == Load(m.cells, into_pos)
                 new  == IF node.v >= 0
                         THEN wrapping_add(into, wrapping_mul(v, abs))
                         ELSE wrapping_sub(into, wrapping_mul(v, abs))
             IN  MovePointer(
                   [m EXCEPT !.cells = Store(Store(@, into_pos, new), p, 0)],
                   node, p)

\* vm.rs:137-153
execute_Mul(node, m) ==
    LET p        == offset_index(m.pos, node.offset)
        into_pos == offset_index(p, node.into)
    IN  IF ~InBounds(p) \/ ~InBounds(into_pos) THEN Fail(m, "Panic")
        ELSE LET v    == Load(m.cells, p)
                 abs  == Abs(node.v) % U8_RANGE
                 into == Load(m.cells, into_pos)
                 new  == IF node.v >= 0
                         THEN wrapping_add(into, wrapping_mul(v, abs))
                         ELSE wrapping_sub(into, wrapping_mul(v, abs))
             IN  MovePointer([m EXCEPT !.cells = Store(@, into_pos, new)],
                             node, p)

\* vm.rs:154-161
execute_Assign(node, m) ==
    LET p == offset_index(m.pos, node.offset) IN
    IF ~InBounds(p) THEN Fail(m, "Panic")
    ELSE MovePointer([m EXCEPT !.cells = Store(@, p, node.v)], node, p)

\* vm.rs:170-181
execute_Out(node, m) ==
    LET p == offset_index(m.pos, node.offset) IN
    IF ~InBounds(p) THEN Fail(m, "Panic")
    ELSE IF m.room = 0 THEN Fail(m, "WriteError")
    ELSE MovePointer(
           [m EXCEPT !.stdout = Append(@, Load(m.cells, p)), !.room = @ - 1],
           node, p)

\* execute_In with the end of input read as the byte 0 instead of an error
execute_In_eof_zero(node, m) ==
    LET p == offset_index(m.pos, node.offset) IN
    IF ~InBounds(p) THEN Fail(m, "Panic")
    ELSE MovePointer(
           [m EXCEPT !.cells = Store(@, p, IF m.stdin = << >> THEN 0
                                           ELSE Head(m.stdin)),
                     !.stdin = IF @ = << >> THEN @ ELSE Tail(@)],
           node, p)

\* vm.rs:182-195
execute_In(node, m) ==
    LET p == offset_index(m.pos, node.offset) IN
    IF m.stdin = << >> THEN Fail(m, "ReadError")
    ELSE LET read == [m EXCEPT !.stdin = Tail(@)] IN
         IF ~InBounds(p) THEN Fail(read, "Panic")
         ELSE MovePointer([read EXCEPT !.cells = Store(@, p, Head(m.stdin))],
                          node, p)

\* vm.rs:196
execute_Comment(node, m) == m

\* vm.rs:108-197  the match of Node::execute, without Conditional and Scan
execute(node, m) ==
    CASE node.op = "Shift"   -> execute_Shift(node, m)
      [] node.op = "Inc"     -> execute_Inc(node, m)
      [] node.op = "Dec"     -> execute_Dec(node, m)
      [] node.op = "Mul"     -> execute_Mul(node, m)
      [] node.op = "Assign"  -> execute_Assign(node, m)
      [] node.op = "Out"     -> execute_Out(node, m)
      [] node.op = "In"      -> execute_In(node, m)
      [] node.op = "Comment" -> execute_Comment(node, m)

IsSimple(node) == node.op \notin {"Conditional", "Scan"}


(***************************************************************************)
(* optimizer.rs: the passes.  Each is a function from a node sequence to   *)
(* a node sequence, written as the fold or map of the source.              *)
(***************************************************************************)
\* the bounds of i32 (optimizer.rs:61, 319)
I32_MAX == 2147483647

I32_MIN == -I32_MAX - 1

\* i32::signum
Signum(x) == IF x > 0 THEN 1 ELSE IF x < 0 THEN -1 ELSE 0

\* optimizer.rs:60-61, 317-319  the sum of two offsets, taken in 64 bits,
\* lies between i32::min_value() and i32::max_value()
fits_i32(x, y) ==
    IF y >= 0 THEN x <= I32_MAX - y ELSE x >= I32_MIN - y

\* x + y on i32 where the sum is not checked, as a release build computes
\* it: modulo 2^32
i32_add(x, y) ==
    IF fits_i32(x, y) THEN x + y
    ELSE IF y > 0 THEN (x - I32_MAX - 1) + (y - I32_MAX - 1)
    ELSE (x + I32_MAX + 1) + (y + I32_MAX + 1)

\* -x on i32, modulo 2^32: i32::min_value() is its own negation
i32_neg(x) == IF x = I32_MIN THEN I32_MIN ELSE -x

\* i32::abs as a release build computes it
i32_abs(x) == IF x < 0 THEN i32_neg(x) ELSE x

\* acc.pop(): the popped element (None when the vector is empty) ...
Last(acc) == IF acc = << >> THEN [op |-> "None"] ELSE acc[Len(acc)]

\* ... and the vector it leaves
Popped(acc) == IF acc = << >> THEN acc ELSE SubSeq(acc, 1, Len(acc) - 1)

IsValueNode(node) == node.op \in {"Inc", "Dec", "Assign"}

IsIoNode(node) == node.op \in {"In", "Out"}

\* optimizer.rs:35-44  FilterComments::apply
RECURSIVE FilterComments(_)
\* FilterComments that leaves the bodies of Conditionals as they are
FilterComments_shallow(code) ==
    IF code = << >> THEN << >>
    ELSE LET n == Head(code) IN
         (CASE n.op = "Comment" -> << >>
            [] OTHER            -> <<n>>)
         \o FilterComments(Tail(code))

FilterComments(code) ==
    IF code = << >> THEN << >>
    ELSE LET n == Head(code) IN
         (CASE n.op = "Comment"     -> << >>
            [] n.op = "Conditional" -> <<Conditional(FilterComments(n.body))>>
            [] OTHER                -> <<n>>)
         \o FilterComments(Tail(code))

\* optimizer.rs:53-99  MergeRepeatedOperators::apply
RECURSIVE MergeRepeatedOperators(_), MergeRepeatedOperators_fold(_, _)
\* MergeRepeatedOperators_step that merges two Inc or two Dec nodes whatever
\* their offsets
MergeRepeatedOperators_step_any_offset(acc, node) ==
    LET last == Last(acc)
        rest == Popped(acc)
        merged ==
            CASE last.op = "Shift" /\ node.op = "Shift" ->
                   IF fits_i32(last.v, node.v)
                   THEN <<Shift(last.v + node.v)>>
                   ELSE << >>
              [] /\ last.op \in {"Inc", "Dec"}
                 /\ node.op = last.op
                 /\ ~last.move_pointer
                 /\ ~node.move_pointer ->
                   IF last.v + node.v > 255
                   THEN << >>
                   ELSE <<[last EXCEPT !.v = last.v + node.v]>>
              [] OTHER -> << >>
    IN  IF merged # << >>
        THEN rest \o merged
        ELSE acc \o <<IF node.op = "Conditional"
                      THEN Conditional(MergeRepeatedOperators(node.body))
                      ELSE node>>

MergeRepeatedOperators_step(acc, node) ==
    LET last == Last(acc)
        rest == Popped(acc)
        merged ==
            CASE last.op = "Shift" /\ node.op = "Shift" ->
                   IF fits_i32(last.v, node.v)
                   THEN <<Shift(last.v + node.v)>>
                   ELSE << >>
              [] /\ last.op \in {"Inc", "Dec"}
                 /\ node.op = last.op
                 /\ ~last.move_pointer
                 /\ ~node.move_pointer ->
                   IF last.v + node.v > 255 \/ last.offset # node.offset
                   THEN << >>
                   ELSE <<[last EXCEPT !.v = last.v + node.v]>>
              [] OTHER -> << >>
    IN  IF merged # << >>
        THEN rest \o merged
        ELSE acc \o <<IF node.op = "Conditional"
                      THEN Conditional(MergeRepeatedOperators(node.body))
                      ELSE node>>

MergeRepeatedOperators_fold(acc, code) ==
    IF code = << >> THEN acc
    ELSE MergeRepeatedOperators_fold(
             MergeRepeatedOperators_step(acc, Head(code)), Tail(code))

MergeRepeatedOperators(code) == MergeRepeatedOperators_fold(<< >>, code)

\* optimizer.rs:109-153  CollapseAssignments::apply
RECURSIVE CollapseAssignments(_), CollapseAssignments_fold(_, _)
\* optimizer.rs:112-120  the map
\* CollapseAssignments_map that takes every loop of a single Dec for the
\* loop that zeroes the current cell
CollapseAssignments_map_any_dec(n) ==
    IF n.op = "Conditional"
    THEN IF Len(n.body) = 1 /\ n.body[1].op = "Dec"
         THEN Assign(0, 0, FALSE)
         ELSE Conditional(CollapseAssignments(n.body))
    ELSE n

CollapseAssignments_map(n) ==
    IF n.op = "Conditional"
    THEN IF n.body = <<Dec(1, 0, FALSE)>>
         THEN Assign(0, 0, FALSE)
         ELSE Conditional(CollapseAssignments(n.body))
    ELSE n

\* optimizer.rs:121-151  the fold
CollapseAssignments_step(acc, c) ==
    LET last == Last(acc)
        rest == Popped(acc)
        zeroed == last.op = "Assign" /\ last.v = 0 /\ ~last.move_pointer
        value ==
            CASE zeroed /\ c.op = "Inc" /\ ~c.move_pointer ->
                   IF last.offset = c.offset
                   THEN <<Assign(c.v, last.offset, FALSE)>>
                   ELSE << >>
              [] zeroed /\ c.op = "Dec" /\ ~c.move_pointer ->
                   IF last.offset = c.offset
                   THEN <<Assign(wrapping_sub(0, c.v), last.offset, FALSE)>>
                   ELSE << >>
              [] OTHER -> << >>
    IN  IF value # << >> THEN rest \o value ELSE acc \o <<c>>

CollapseAssignments_fold(acc, code) ==
    IF code = << >> THEN acc
    ELSE CollapseAssignments_fold(
             CollapseAssignments_step(acc, CollapseAssignments_map(Head(code))),
             Tail(code))

CollapseAssignments(code) == CollapseAssignments_fold(<< >>, code)

\* optimizer.rs:165-263  CollapseOffsets::apply
RECURSIVE CollapseOffsets(_), CollapseOffsets_fold(_, _)
\* optimizer.rs:187-211, 217-237  a committing node followed by a Shift
\* CollapseOffsets_shifted with the residual Shift always given the sign of
\* diff, whatever the sign of the offset
CollapseOffsets_shifted_unweighted(old_node, shift_offset) ==
    LET offset == old_node.offset IN
    IF Signum(offset) # Signum(shift_offset)
    THEN LET diff == i32_add(i32_abs(offset), i32_neg(i32_abs(shift_offset)))
         IN  IF diff = 0
             THEN <<[old_node EXCEPT !.move_pointer = FALSE]>>
             ELSE IF diff > 0
             THEN <<Shift(diff),
                    [old_node EXCEPT !.offset = i32_add(offset, i32_neg(diff)),
                                     !.move_pointer = FALSE]>>
             ELSE <<[old_node EXCEPT !.move_pointer = FALSE], Shift(diff)>>
    ELSE << >>

CollapseOffsets_shifted(old_node, shift_offset) ==
    LET offset == old_node.offset IN
    IF Signum(offset) # Signum(shift_offset)
    THEN LET diff == i32_add(i32_abs(offset), i32_neg(i32_abs(shift_offset)))
             weighted_diff == IF Signum(offset) = -1 THEN i32_neg(diff)
                              ELSE Signum(offset) * diff
             shift == Shift(weighted_diff)
         IN  IF diff = 0
             THEN <<[old_node EXCEPT !.move_pointer = FALSE]>>
             ELSE IF diff > 0
             THEN <<shift,
                    [old_node EXCEPT
                       !.offset = i32_add(offset, i32_neg(weighted_diff)),
                       !.move_pointer = FALSE]>>
             ELSE <<[old_node EXCEPT !.move_pointer = FALSE], shift>>
    ELSE << >>

\* CollapseOffsets_step that leaves the body of a Conditional as it is
CollapseOffsets_step_top(acc, node) ==
    LET last == Last(acc)
        rest == Popped(acc)
        modified ==
            CASE last.op = "Shift" ->
                   IF /\ (IsValueNode(node) \/ IsIoNode(node))
                      /\ node.offset = 0
                      /\ ~node.move_pointer
                   THEN <<[node EXCEPT !.offset = last.v,
                                       !.move_pointer = TRUE]>>
                   ELSE << >>
              [] last.op # "Shift" /\ last.op # "None" ->
                   IF /\ node.op = "Shift"
                      /\ (IsValueNode(last) \/ IsIoNode(last))
                      /\ last.move_pointer
                   THEN CollapseOffsets_shifted(last, node.v)
                   ELSE << >>
              [] OTHER -> << >>
    IN  IF modified # << >> THEN rest \o modified ELSE acc \o <<node>>

CollapseOffsets_step(acc, node) ==
    LET last == Last(acc)
        rest == Popped(acc)
        new_node == IF node.op = "Conditional"
                    THEN Conditional(CollapseOffsets(node.body))
                    ELSE node
        modified ==
            CASE last.op = "Shift" ->
                   IF /\ (IsValueNode(new_node) \/ IsIoNode(new_node))
                      /\ new_node.offset = 0
                      /\ ~new_node.move_pointer
                   THEN <<[new_node EXCEPT !.offset = last.v,
                                           !.move_pointer = TRUE]>>
                   ELSE << >>
              [] last.op # "Shift" /\ last.op # "None" ->
                   IF /\ new_node.op = "Shift"
                      /\ (IsValueNode(last) \/ IsIoNode(last))
                      /\ last.move_pointer
                   THEN CollapseOffsets_shifted(last, new_node.v)
                   ELSE << >>
              [] OTHER -> << >>
    IN  IF modified # << >> THEN rest \o modified ELSE acc \o <<new_node>>

CollapseOffsets_fold(acc, code) ==
    IF code = << >> THEN acc
    ELSE CollapseOffsets_fold(CollapseOffsets_step(acc, Head(code)), Tail(code))

CollapseOffsets(code) == CollapseOffsets_fold(<< >>, code)

RECURSIVE CollapseOffsets_overflows(_, _)
\* optimizer.rs:187-196, 225-233  the fold computes offset.abs() and
\* shift_offset.abs() on i32 without a check: on i32::min_value() a debug
\* build panics ("attempt to negate with overflow") and a release build
\* wraps.  TRUE when the fold over `code`, begun with `acc`, meets one.
CollapseOffsets_overflows(acc, code) ==
    IF code = << >> THEN FALSE
    ELSE LET node == Head(code)
             last == Last(acc)
         IN  \/ /\ node.op = "Conditional"
                /\ CollapseOffsets_overflows(<< >>, node.body)
             \/ /\ node.op = "Shift"
                /\ IsValueNode(last) \/ IsIoNode(last)
                /\ last.move_pointer
                /\ Signum(last.offset) # Signum(node.v)
                /\ last.offset = I32_MIN \/ node.v = I32_MIN
             \/ CollapseOffsets_overflows(CollapseOffsets_step(acc, node),
                                          Tail(code))

\* optimizer.rs:274-378  DeferMovements::apply
RECURSIVE DeferMovements(_), DeferMovements_groups(_, _, _),
          DeferMovements_run(_, _, _), DeferMovements_emit(_, _)
\* optimizer.rs:276-306  the first fold: the straight-line groups, each
\* Scan and each Conditional a group of its own
DeferMovements_groups(memo, current_block, code) ==
    IF code = << >> THEN Append(memo, current_block)
    ELSE LET n == Head(code) IN
         CASE n.op = "Scan" ->
                DeferMovements_groups(
                    memo \o <<current_block, <<Scan(n.v)>>>>, << >>, Tail(code))
           [] n.op = "Conditional" ->
                DeferMovements_groups(
                    memo \o <<current_block,
                              <<Conditional(DeferMovements(n.body))>>>>,
                    << >>, Tail(code))
           [] OTHER ->
                DeferMovements_groups(memo, Append(current_block, n), Tail(code))

\* DeferMovements_run that re-targets every node but Mul, which keeps the
\* source offset it came with
DeferMovements_run_keep_mul(out, current_offset, group) ==
    IF group = << >>
    THEN IF current_offset # 0 THEN Append(out, Shift(current_offset)) ELSE out
    ELSE LET node == Head(group) IN
         CASE node.op = "Shift" ->
                DeferMovements_run(out, current_offset + node.v, Tail(group))
           [] node.op = "Mul" ->
                DeferMovements_run(Append(out, node), current_offset,
                                   Tail(group))
           [] IsValueNode(node) \/ IsIoNode(node) ->
                DeferMovements_run(
                    Append(out, [node EXCEPT !.offset = current_offset + @,
                                             !.move_pointer = FALSE]),
                    IF node.move_pointer THEN current_offset + node.offset
                    ELSE current_offset,
                    Tail(group))
           [] OTHER -> DeferMovements_run(out, current_offset, Tail(group))

\* optimizer.rs:312-372  the loop over the nodes of one group
DeferMovements_run(out, current_offset, group) ==
    IF group = << >>
    THEN IF current_offset # 0 THEN Append(out, Shift(current_offset)) ELSE out
    ELSE LET node == Head(group) IN
         CASE node.op = "Shift" ->
                IF fits_i32(current_offset, node.v)
                THEN DeferMovements_run(out, current_offset + node.v,
                                        Tail(group))
                ELSE DeferMovements_run(Append(out, Shift(current_offset)),
                                        node.v, Tail(group))
           [] IsValueNode(node) \/ IsIoNode(node) \/ node.op = "Mul" ->
                DeferMovements_run(
                    Append(out, [node EXCEPT
                                    !.offset = i32_add(current_offset, @),
                                    !.move_pointer = FALSE]),
                    IF node.move_pointer
                    THEN i32_add(current_offset, node.offset)
                    ELSE current_offset,
                    Tail(group))
           [] OTHER -> DeferMovements_run(out, current_offset, Tail(group))

\* optimizer.rs:308-376  the second fold, over the groups
DeferMovements_emit(memo, groups) ==
    IF groups = << >> THEN memo
    ELSE LET group == Head(groups) IN
         DeferMovements_emit(
             IF Len(group) = 1 THEN Append(memo, group[1])
             ELSE DeferMovements_run(memo, 0, group),
             Tail(groups))

DeferMovements(code) ==
    DeferMovements_emit(<< >>, DeferMovements_groups(<< >>, << >>, code))

RECURSIVE DeferMovements_run_overflows(_, _), DeferMovements_overflows(_)
\* optimizer.rs:312-363  the loop over one group adds an offset to
\* current_offset on i32 without a check (only the sum of a Shift is
\* checked): when the sum leaves the range a debug build panics ("attempt to
\* add with overflow") and a release build wraps.  TRUE when the loop over
\* `group`, begun at `current_offset`, meets such a sum.
DeferMovements_run_overflows(current_offset, group) ==
    IF group = << >> THEN FALSE
    ELSE LET node == Head(group) IN
         CASE node.op = "Shift" ->
                DeferMovements_run_overflows(
                    IF fits_i32(current_offset, node.v)
                    THEN current_offset + node.v ELSE node.v,
                    Tail(group))
           [] IsValueNode(node) \/ IsIoNode(node) \/ node.op = "Mul" ->
                \/ ~fits_i32(current_offset, node.offset)
                \/ DeferMovements_run_overflows(
                       IF node.move_pointer
                       THEN i32_add(current_offset, node.offset)
                       ELSE current_offset,
                       Tail(group))
           [] OTHER -> DeferMovements_run_overflows(current_offset, Tail(group))

\* optimizer.rs:274-378  an unchecked sum leaves the range somewhere in
\* DeferMovements::apply of `code`, the loop bodies included
DeferMovements_overflows(code) ==
    \/ \E i \in 1..Len(code) :
          /\ code[i].op = "Conditional"
          /\ DeferMovements_overflows(code[i].body)
    \/ LET groups == DeferMovements_groups(<< >>, << >>, code) IN
       \E g \in 1..Len(groups) :
          /\ Len(groups[g]) # 1
          /\ DeferMovements_run_overflows(0, groups[g])

\* optimizer.rs:395-405  CollapseSimpleLoops::is_collapsible_loop
is_collapsible_loop(body) ==
    LET has_only_allowed_elements ==
            \A i \in 1..Len(body) :
                body[i].op \in {"Inc", "Dec"} /\ ~body[i].move_pointer
        contains_iterator ==
            \E i \in 1..Len(body) : body[i] = Dec(1, 0, FALSE)
    IN  body # << >> /\ has_only_allowed_elements /\ contains_iterator

\* optimizer.rs:414-427  the nodes that replace a collapsible loop
RECURSIVE CollapseSimpleLoops_moves(_)
CollapseSimpleLoops_moves(body) ==
    IF body = << >> THEN << >>
    ELSE LET node == Head(body) IN
         (CASE node = Dec(1, 0, FALSE) -> << >>
            [] node.op = "Inc" /\ ~node.move_pointer ->
                 <<Mul(node.v, node.offset, 0, FALSE)>>
            [] node.op = "Dec" /\ ~node.move_pointer ->
                 <<Mul(-node.v, node.offset, 0, FALSE)>>
            [] OTHER -> << >>)
         \o CollapseSimpleLoops_moves(Tail(body))

\* optimizer.rs:408-442  CollapseSimpleLoops::apply
RECURSIVE CollapseSimpleLoops(_)
\* CollapseSimpleLoops that leaves the body of a loop it does not collapse
\* as it is
CollapseSimpleLoops_top(code) ==
    IF code = << >> THEN << >>
    ELSE LET node == Head(code) IN
         (IF node.op = "Conditional" /\ is_collapsible_loop(node.body)
          THEN Append(CollapseSimpleLoops_moves(node.body),
                      Assign(0, 0, FALSE))
          ELSE <<node>>)
         \o CollapseSimpleLoops(Tail(code))

CollapseSimpleLoops(code) ==
    IF code = << >> THEN << >>
    ELSE LET node == Head(code) IN
         (IF node.op = "Conditional"
          THEN IF is_collapsible_loop(node.body)
               THEN Append(CollapseSimpleLoops_moves(node.body),
                           Assign(0, 0, FALSE))
               ELSE <<Conditional(CollapseSimpleLoops(node.body))>>
          ELSE <<node>>)
         \o CollapseSimpleLoops(Tail(code))

\* optimizer.rs:453-464  CollapseScanLoops::apply
RECURSIVE CollapseScanLoops(_)
\* CollapseScanLoops that takes every loop beginning with a Shift for a scan
CollapseScanLoops_first(code) ==
    IF code = << >> THEN << >>
    ELSE LET n == Head(code) IN
         <<IF n.op = "Conditional"
           THEN IF Len(n.body) >= 1 /\ n.body[1].op = "Shift"
                THEN Scan(n.body[1].v)
                ELSE Conditional(CollapseScanLoops(n.body))
           ELSE n>>
         \o CollapseScanLoops(Tail(code))

CollapseScanLoops(code) ==
    IF code = << >> THEN << >>
    ELSE LET n == Head(code) IN
         <<IF n.op = "Conditional"
           THEN IF Len(n.body) = 1 /\ n.body[1].op = "Shift"
                THEN Scan(n.body[1].v)
                ELSE Conditional(CollapseScanLoops(n.body))
           ELSE n>>
         \o CollapseScanLoops(Tail(code))

\* optimizer.rs:5-11  OptimizationOptions
OptimizationOptions ==
    [collapsed_operators : BOOLEAN, collapsed_assignments : BOOLEAN,
     collapsed_offsets : BOOLEAN, collapsed_loops : BOOLEAN,
     collapsed_scan_loops : BOOLEAN]

\* optimizer.rs:13-23  OptimizationOptions::default
DefaultOptions ==
    [collapsed_operators |-> TRUE, collapsed_assignments |-> TRUE,
     collapsed_offsets |-> TRUE, collapsed_loops |-> TRUE,
     collapsed_scan_loops |-> TRUE]

\* every switch off
NoOptions ==
    [collapsed_operators |-> FALSE, collapsed_assignments |-> FALSE,
     collapsed_offsets |-> FALSE, collapsed_loops |-> FALSE,
     collapsed_scan_loops |-> FALSE]

\* optimizer.rs:466-497  optimize_code: the passes pushed, applied in order
optimize_code(code, options) ==
    LET c1 == FilterComments(code)
        c2 == IF options.collapsed_operators
              THEN MergeRepeatedOperators(c1) ELSE c1
        c3 == IF options.collapsed_assignments
              THEN CollapseAssignments(c2) ELSE c2
        c4 == IF options.collapsed_offsets THEN CollapseOffsets(c3) ELSE c3
        c5 == IF options.collapsed_loops
              THEN LET d1 == CollapseSimpleLoops(DeferMovements(c4))
                       d2 == IF options.collapsed_offsets
                             THEN CollapseOffsets(d1) ELSE d1
                   IN  DeferMovements(d2)
              ELSE c4
    IN  IF options.collapsed_scan_loops THEN CollapseScanLoops(c5) ELSE c5

(***************************************************************************)
(* parser.rs                                                               *)
(***************************************************************************)
\* parser.rs:5-19  impl From<char> for Node
NodeFrom(c) ==
    CASE c = ">" -> Shift(1)
      [] c = "<" -> Shift(-1)
      [] c = "+" -> Inc(1, 0, FALSE)
      [] c = "-" -> Dec(1, 0, FALSE)
      [] c = "." -> Out(0, FALSE)
      [] c = "," -> In(0, FALSE)
      [] OTHER   -> Comment(c)

\* Result<Vec<Node>, ParserError>
ParseOk(nodes) == [ok |-> TRUE, nodes |-> nodes]

ParseErr(error) == [ok |-> FALSE, error |-> error]

\* nested.last_mut()?.push(node)
PushToLast(nested, node) == [nested EXCEPT ![Len(nested)] = Append(@, node)]

\* parser.rs:33-65  the loop over the bytes, then the checks after it
RECURSIVE parse_loop(_, _)
parse_loop(nested, code) ==
    IF code = << >>
    THEN IF Len(nested) > 1 THEN ParseErr("MissingDelimiter")
         ELSE IF Len(nested) # 1 THEN ParseErr("Internal")
         ELSE ParseOk(nested[Len(nested)])
    ELSE LET next_char == Head(code) IN
         CASE next_char = "[" -> parse_loop(Append(nested, << >>), Tail(code))
           [] next_char = "]" ->
                IF Len(nested) < 2 THEN ParseErr("UnmatchedDelimiter")
                ELSE LET body == nested[Len(nested)]
                         rest == SubSeq(nested, 1, Len(nested) - 1)
                     IN  parse_loop(PushToLast(rest, Conditional(body)),
                                    Tail(code))
           [] OTHER ->
                IF nested = << >> THEN ParseErr("Internal")
                ELSE parse_loop(PushToLast(nested, NodeFrom(next_char)),
                                Tail(code))

\* the number of occurrences of the character c in a text
Count(code, c) == Len(SelectSeq(code, LAMBDA x : x = c))

\* parse_code that counts the brackets of the whole text before it reads
\* it: an open bracket in excess is reported first, wherever it stands
parse_code_count_first(code) ==
    IF Count(code, "[") > Count(code, "]") THEN ParseErr("MissingDelimiter")
    ELSE parse_loop(<<<< >>>>, code)

\* parser.rs:29-66  parse_code
parse_code(code) == parse_loop(<<<< >>>>, code)

(***************************************************************************)
(* vm.rs:85-95, 109-114, 162-169  run_block as a function: the machine a   *)
(* whole call leaves.  A run x is a machine m and the number of loop-body  *)
(* entries and scan steps it may still take (fuel); a call cut short by    *)
(* the fuel has the result "OutOfFuel".  A loop whose body, run once,      *)
(* leaves the very machine it began with (tape, pointer, input and output) *)
(* repeats that iteration for ever: the call never returns, which is the   *)
(* result "Diverges".                                                      *)
(***************************************************************************)
RECURSIVE run_block(_, _), while_loop(_, _), scan_loop(_, _, _)
\* vm.rs:109-114  Node::Conditional
while_loop(body, x) ==
    IF x.m.result # "Ok" THEN x
    ELSE IF ~InBounds(x.m.pos) THEN [x EXCEPT !.m = Fail(@, "Panic")]
    ELSE IF Load(x.m.cells, x.m.pos) = 0 THEN x
    ELSE IF x.fuel = 0 THEN [x EXCEPT !.m = Fail(@, "OutOfFuel")]
    ELSE LET after == run_block(body, [x EXCEPT !.fuel = @ - 1]) IN
         IF after.m = x.m THEN [x EXCEPT !.m = Fail(@, "Diverges")]
         ELSE while_loop(body, after)

\* vm.rs:162-169  Node::Scan, p its local `pos`
scan_loop(interval, p, x) ==
    IF ~InBounds(p) THEN [x EXCEPT !.m = Fail(@, "Panic")]
    ELSE IF Load(x.m.cells, p) = 0 THEN [x EXCEPT !.m.pos = p]
    ELSE IF x.fuel = 0 THEN [x EXCEPT !.m = Fail(@, "OutOfFuel")]
    ELSE scan_loop(interval, offset_index(p, interval),
                   [x EXCEPT !.fuel = @ - 1])

\* vm.rs:91-94  for node in block { node.execute(stdin, stdout, s)?; }
run_block(block, x) ==
    IF block = << >> \/ x.m.result # "Ok" THEN x
    ELSE LET node == Head(block)
             after == CASE node.op = "Conditional" -> while_loop(node.body, x)
                        [] node.op = "Scan" -> scan_loop(node.v, x.m.pos, x)
                        [] OTHER -> [x EXCEPT !.m = execute(node, x.m)]
         IN  run_block(Tail(block), after)

\* the machine run_block leaves when called with `block` on machine m
Run(block, m) == run_block(block, [m |-> m, fuel |-> MaxIters]).m

(***************************************************************************)
(* The interpreter as a state machine: one run_block call on a State.      *)
(*   pos, cells       the State (vm.rs:8-11)                               *)
(*   stdin            the bytes the input source still holds               *)
(*   stdout, room     the bytes written to the sink; the writes it still   *)
(*                    accepts                                              *)
(*   stack            the active run_block calls, innermost last: the      *)
(*                    block each iterates over and the index of its next   *)
(*                    node                                                 *)
(*   scan_pos         the local `pos` of a running Scan, NoScan otherwise  *)
(*   result           "Running", then what the outermost run_block         *)
(*                    returned: "Ok", "ReadError", "WriteError"; "Panic"   *)
(*                    when an index failed its bounds check                *)
(*   iters            loop-body entries and scan steps so far              *)
(***************************************************************************)
VARIABLES pos, cells, stdin, stdout, room, stack, scan_pos, result, iters

(***************************************************************************)
(* The way from source text to a run (parser.rs, optimizer.rs):            *)
(*   phase       "run" while the interpreter above runs a block; else the  *)
(*               last step taken on the text: "source", "parsed",          *)
(*               "optimized", "reoptimized", "executed"                    *)
(*   text        the source text, a sequence of characters                 *)
(*   parsed      what parse_code returned for it                           *)
(*   options     the OptimizationOptions optimize_code was called with     *)
(*   optimized   the tree optimize_code returned                           *)
(*   again       the tree optimize_code returned for `optimized`           *)
(*   plain, fast the machines left by run_block of the comment-stripped    *)
(*               tree and of the optimized tree                            *)
(***************************************************************************)
VARIABLES phase, text, parsed, options, optimized, again, plain, fast

vm_vars == <<pos, cells, stdin, stdout, room, stack, scan_pos, result, iters>>

pipe_vars == <<phase, text, parsed, options, optimized, again, plain, fast>>

\* the two lines of a start_repl session and the machine one run_code of
\* their concatenation leaves
VARIABLES fragments, whole

session_vars == <<fragments, whole>>

\* the tree handed to one optimizer pass and the name of that pass
VARIABLES tree, pass

pass_vars == <<tree, pass>>

\* parse_code at work: `nested`, its stack of pending body sequences (the
\* innermost last), and the number of bytes of the text it has read
VARIABLES nested_bodies, consumed

parse_vars == <<nested_bodies, consumed>>

\* the AnalysisResults the analyzer returned for the tree
VARIABLES results

vars == <<vm_vars, pipe_vars, session_vars, pass_vars, parse_vars, results>>

\* the value of a variable that holds nothing yet
None == "none"

NoScan == -1

RuntimeError == {"ReadError", "WriteError"}

(***************************************************************************)
(* The inputs run_block is called with.                                    *)
(***************************************************************************)
\* the cells that may hold a value when run_block is called
HotCells == {0, 1, 2, NUMBER_OF_CELLS - 1}

HotValues == {0, 1, 255}

\* the tape of an assignment of values to the hot cells
TapeOf(f) == [i \in {j \in DOMAIN f : f[j] # 0} |-> f[i]]

InitTapes == {TapeOf(f) : f \in [HotCells -> HotValues]}

InitPositions == {0, NUMBER_OF_CELLS - 1}

Inputs == {<< >>, <<7>>}

Rooms == {0, MaxRoom}

\* (value, offset, move_pointer) of the Inc, Dec and Assign nodes drawn
ValueArgs ==
    {<<1, 0, FALSE>>, <<5, -1, TRUE>>, <<1, -2, TRUE>>, <<2, 65537, FALSE>>}

SimpleNodes ==
    {Shift(d) : d \in {1, -1, 3, -3}}
    \cup {Inc(a[1], a[2], a[3]) : a \in ValueArgs}
    \cup {Dec(a[1], a[2], a[3]) : a \in ValueArgs}
    \cup {Assign(a[1], a[2], a[3]) : a \in ValueArgs \cup {<<0, 0, FALSE>>}}
    \cup {Mul(3, 2, 0, FALSE), Mul(-2, -1, 1, TRUE), Mul(3, 0, 1, TRUE)}
    \cup {Out(0, FALSE), Out(1, TRUE)}
    \cup {In(0, FALSE), In(1, TRUE), In(-1, TRUE)}
    \cup {Scan(1), Scan(-2), Scan(2)}
    \cup {Comment("x")}

LoopNodes ==
    { Conditional(<<Dec(1, 0, FALSE)>>),
      Conditional(<<Shift(1)>>),
      Conditional(<<Dec(1, 0, FALSE), Inc(1, 1, FALSE)>>),
      Conditional(<<Out(0, FALSE), Dec(1, 0, FALSE)>>),
      Conditional(<<Dec(1, 0, TRUE), Shift(-1)>>),
      Conditional(<<Conditional(<<In(1, FALSE), Dec(1, 0, FALSE)>>),
                    Inc(1, 0, FALSE)>>),
      Conditional(<<Conditional(<<Out(0, FALSE), Shift(1)>>),
                    Shift(-1)>>) }

Programs ==
    {<< >>}
    \cup {<<n>> : n \in SimpleNodes \cup LoopNodes}
    \cup {<<a, b>> : a \in {In(0, FALSE), Out(1, TRUE), Shift(-1), Shift(1)},
                     b \in {Inc(1, 0, FALSE), Shift(3), Scan(1),
                            Conditional(<<Dec(1, 0, FALSE)>>)}}

Init ==
    /\ pos \in InitPositions
    /\ cells \in InitTapes
    /\ stdin \in Inputs
    /\ stdout = << >>
    /\ room \in Rooms
    /\ \E code \in Programs : stack = <<[block |-> code, pc |-> 1]>>
    /\ scan_pos = NoScan
    /\ result = "Running"
    /\ iters = 0
    /\ phase = "run"
    /\ text = << >>
    /\ parsed = None
    /\ options = None
    /\ optimized = None
    /\ again = None
    /\ plain = None
    /\ fast = None
    /\ fragments = None
    /\ whole = None
    /\ tree = None
    /\ pass = None
    /\ nested_bodies = None
    /\ consumed = 0
    /\ results = None

(***************************************************************************)
(* vm.rs:85-95  run_block, and the `?` that hands an error to the caller   *)
(***************************************************************************)
Top == stack[Len(stack)]

\* a node of the innermost block is still to be executed
HasNode == stack # << >> /\ Top.pc <= Len(Top.block)

Node == Top.block[Top.pc]

\* the for loop of run_block moves to the next node
Advance == [stack EXCEPT ![Len(stack)].pc = @ + 1]

\* the machine the variables describe
Now == Machine(pos, cells, stdin, stdout, room)

\* vm.rs:92  node.execute(stdin, stdout, s)? for the node kind `kind`
ExecuteKind(kind) ==
    /\ result = "Running"
    /\ HasNode
    /\ Node.op = kind
    /\ LET m == execute(Node, Now) IN
         /\ pos' = m.pos
         /\ cells' = m.cells
         /\ stdin' = m.stdin
         /\ stdout' = m.stdout
         /\ room' = m.room
         /\ IF m.result = "Ok"
            THEN result' = result /\ stack' = Advance
            ELSE result' = m.result /\ stack' = stack
    /\ UNCHANGED <<scan_pos, iters, pipe_vars, session_vars, pass_vars,
                   parse_vars, results>>

ExecShift == ExecuteKind("Shift")

ExecInc == ExecuteKind("Inc")

ExecDec == ExecuteKind("Dec")

ExecMul == ExecuteKind("Mul")

ExecAssign == ExecuteKind("Assign")

ExecOut == ExecuteKind("Out")

ExecIn == ExecuteKind("In")

ExecComment == ExecuteKind("Comment")

\* ExecConditional as a do-while loop: the body is entered before the cell
\* is first tested
ExecConditional_do_while ==
    /\ result = "Running"
    /\ HasNode
    /\ Node.op = "Conditional"
    /\ iters < MaxIters
    /\ stack' = Append(stack, [block |-> Node.body, pc |-> 1])
    /\ iters' = iters + 1
    /\ UNCHANGED <<pos, cells, stdin, stdout, room, scan_pos, result, pipe_vars,
                   session_vars, pass_vars, parse_vars, results>>

\* vm.rs:109-114  Node::Conditional: the test of the while loop
ExecConditional ==
    /\ result = "Running"
    /\ HasNode
    /\ Node.op = "Conditional"
    /\ \/ /\ ~InBounds(pos)
          /\ result' = "Panic"
          /\ UNCHANGED <<stack, iters>>
       \/ /\ InBounds(pos)
          /\ Load(cells, pos) # 0
          /\ iters < MaxIters
          /\ stack' = Append(stack, [block |-> Node.body, pc |-> 1])
          /\ iters' = iters + 1
          /\ UNCHANGED result
       \/ /\ InBounds(pos)
          /\ Load(cells, pos) = 0
          /\ stack' = Advance
          /\ UNCHANGED <<result, iters>>
    /\ UNCHANGED <<pos, cells, stdin, stdout, room, scan_pos, pipe_vars,
                   session_vars, pass_vars, parse_vars, results>>

\* vm.rs:162-169  Node::Scan: one test of its while loop
ExecScan ==
    /\ result = "Running"
    /\ HasNode
    /\ Node.op = "Scan"
    /\ LET p == IF scan_pos = NoScan THEN pos ELSE scan_pos IN
       \/ /\ ~InBounds(p)
          /\ result' = "Panic"
          /\ scan_pos' = NoScan
          /\ UNCHANGED <<pos, stack, iters>>
       \/ /\ InBounds(p)
          /\ Load(cells, p) # 0
          /\ iters < MaxIters
          /\ scan_pos' = offset_index(p, Node.v)
          /\ iters' = iters + 1
          /\ UNCHANGED <<pos, stack, result>>
       \/ /\ InBounds(p)
          /\ Load(cells, p) = 0
          /\ pos' = p
          /\ scan_pos' = NoScan
          /\ stack' = Advance
          /\ UNCHANGED <<result, iters>>
    /\ UNCHANGED <<cells, stdin, stdout, room, pipe_vars,
                   session_vars, pass_vars, parse_vars, results>>

\* vm.rs:94  run_block reaches the end of its block and returns Ok(())
BlockReturn ==
    /\ result = "Running"
    /\ stack # << >>
    /\ Top.pc > Len(Top.block)
    /\ stack' = SubSeq(stack, 1, Len(stack) - 1)
    /\ result' = IF Len(stack) = 1 THEN "Ok" ELSE result
    /\ UNCHANGED <<pos, cells, stdin, stdout, room, scan_pos, iters, pipe_vars,
                   session_vars, pass_vars, parse_vars, results>>

\* Unwind with the error dropped instead of returned: the run goes on with
\* the node after the failed one
Unwind_swallow ==
    /\ result \in RuntimeError \cup {"Panic"}
    /\ stack # << >>
    /\ stack' = Advance
    /\ result' = "Running"
    /\ UNCHANGED <<pos, cells, stdin, stdout, room, scan_pos, iters, pipe_vars,
                   session_vars, pass_vars, parse_vars, results>>

\* vm.rs:92, 111  the `?`: a run_block call returns the error it was handed
Unwind ==
    /\ result \in RuntimeError \cup {"Panic"}
    /\ stack # << >>
    /\ stack' = SubSeq(stack, 1, Len(stack) - 1)
    /\ UNCHANGED <<pos, cells, stdin, stdout, room, scan_pos, result, iters,
                   pipe_vars, session_vars, pass_vars, parse_vars, results>>

Next ==
    \/ ExecShift
    \/ ExecInc
    \/ ExecDec
    \/ ExecMul
    \/ ExecAssign
    \/ ExecOut
    \/ ExecIn
    \/ ExecComment
    \/ ExecConditional
    \/ ExecScan
    \/ BlockReturn
    \/ Unwind

Spec == Init /\ [][Next]_vars


(***************************************************************************)
(* From source text to a run: parse_code, optimize_code, run_block.        *)
(***************************************************************************)
\* the characters of a source text: the six instructions and the two
\* brackets of parser.rs:8-15, and a character that is none of them
Alphabet == {">", "<", "+", "-", ".", ",", "[", "]", "x"}

Texts == UNION {[1..n -> Alphabet] : n \in 0..MaxText}

\* sources with a loop the optimizer may collapse, alone and between other
\* instructions
LoopTexts ==
    LET before == { << >>, <<">">>, <<"+", ">">>, <<"<">>, <<">", "<">> }
        loops  == { <<"[", "-", ">", "+", "<", "]">>,
                    <<"[", "-", "<", "+", ">", "]">>,
                    <<"[", ">", "+", "+", "<", "-", "]">>,
                    <<"[", "-", ">", "+", ">", "-", "<", "<", "]">>,
                    <<"[", "-", ">", "+", "<", "-", "]">>,
                    <<"[", "-", ">", "+", "]">>,
                    <<"[", "[", "-", ">", "+", "<", "]", ">", "]">>,
                    <<"[", "-", "+", "]">> }
        after  == { << >>, <<">">>, <<"+">>, <<"<", ".">>, <<"[", "-", "]">>,
                    <<">", "[", "-", "<", "+", ">", "]">> }
    IN  {b \o l \o a : b \in before, l \in loops, a \in after}

\* vm.rs:13-20  State::default(), no input, a sink that accepts MaxRoom bytes
IdleMachine ==
    /\ pos = 0
    /\ cells = ZeroTape
    /\ stdin = << >>
    /\ stdout = << >>
    /\ room = MaxRoom
    /\ stack = << >>
    /\ scan_pos = NoScan
    /\ result = "Ok"
    /\ iters = 0

InitText ==
    /\ IdleMachine
    /\ phase = "source"
    /\ text \in Texts \cup LoopTexts
    /\ parsed = None
    /\ options = None
    /\ optimized = None
    /\ again = None
    /\ plain = None
    /\ fast = None
    /\ fragments = None
    /\ whole = None
    /\ tree = None
    /\ pass = None
    /\ nested_bodies = None
    /\ consumed = 0
    /\ results = None

\* parser.rs:29-66  parse_code(text)
ParseCode ==
    /\ phase = "source"
    /\ parsed' = parse_code(text)
    /\ phase' = "parsed"
    /\ UNCHANGED <<vm_vars, text, options, optimized, again, plain, fast,
                   session_vars, pass_vars, parse_vars, results>>

\* optimizer.rs:466-497  optimize_code(parsed, opts)
OptimizeCode(opts) ==
    /\ phase = "parsed"
    /\ parsed.ok
    /\ options' = opts
    /\ optimized' = optimize_code(parsed.nodes, opts)
    /\ phase' = "optimized"
    /\ UNCHANGED <<vm_vars, text, parsed, again, plain, fast,
                   session_vars, pass_vars, parse_vars, results>>

\* optimize_code with OptimizationOptions::default()
OptimizeDefault == OptimizeCode(DefaultOptions)

\* optimize_code with any other choice of the five switches
OptimizeWith ==
    \E opts \in OptimizationOptions \ {DefaultOptions} :
        /\ (opts = NoOptions \/ Len(text) <= MaxOptText)
        /\ OptimizeCode(opts)

\* optimizer.rs:466-497  optimize_code applied to its own output
Reoptimize ==
    /\ phase = "optimized"
    /\ options = DefaultOptions
    /\ again' = optimize_code(optimized, DefaultOptions)
    /\ phase' = "reoptimized"
    /\ UNCHANGED <<vm_vars, text, parsed, options, optimized, plain, fast,
                   session_vars, pass_vars, parse_vars, results>>

\* the States and streams the two trees are run on
EquivTapes == {TapeOf(f) : f \in [{0, 1} -> HotValues]}

\* vm.rs:85-95  run_block of the comment-stripped tree and of the optimized
\* tree, each on the same State, input source and output sink
Execute ==
    /\ phase = "optimized"
    /\ options = DefaultOptions
    /\ \E p \in InitPositions, c \in EquivTapes, i \in Inputs, r \in Rooms :
          /\ pos' = p
          /\ cells' = c
          /\ stdin' = i
          /\ room' = r
          /\ plain' = Run(FilterComments(parsed.nodes), Machine(p, c, i, << >>, r))
          /\ fast' = Run(optimized, Machine(p, c, i, << >>, r))
    /\ phase' = "executed"
    /\ UNCHANGED <<stdout, stack, scan_pos, result, iters,
                   text, parsed, options, optimized, again,
                   session_vars, pass_vars, parse_vars, results>>

NextOpt ==
    \/ ParseCode
    \/ OptimizeDefault
    \/ OptimizeWith
    \/ Reoptimize

\* parse_code and optimize_code on every source text
SpecOpt == InitText /\ [][NextOpt]_vars

NextEquiv ==
    \/ ParseCode
    \/ OptimizeDefault
    \/ Execute

\* parse_code, optimize_code and the two runs on every source text
SpecEquiv == InitText /\ [][NextEquiv]_vars

(***************************************************************************)
(* analyzer.rs: SimpleAnalyzer, the counter of the nodes of a tree.  The   *)
(* HashMap<Node, u32> is a function from the keys it holds to their        *)
(* counts.                                                                 *)
(***************************************************************************)

\* analyzer.rs:25-32  AnalysisResults::default
AnalysisResults_default == [total |-> 0, nodes |-> << >>]

\* analyzer.rs:17-20, 59  nodes.entry(k).and_modify(|n| *n += v).or_insert(v)
entry_add(nodes, k, v) ==
    [x \in DOMAIN nodes \cup {k} |->
        IF x # k THEN nodes[x]
        ELSE IF k \in DOMAIN nodes THEN nodes[k] + v ELSE v]

RECURSIVE merge_nodes(_, _)
\* analyzer.rs:16-21  the loop over the entries of nested.nodes
merge_nodes(nodes, nested) ==
    IF DOMAIN nested = {} THEN nodes
    ELSE LET k == CHOOSE x \in DOMAIN nested : TRUE IN
         merge_nodes(entry_add(nodes, k, nested[k]),
                     [x \in DOMAIN nested \ {k} |-> nested[x]])

\* analyzer.rs:13-22  AnalysisResults::merge
merge(self, nested) ==
    [total |-> self.total + nested.total,
     nodes |-> merge_nodes(self.nodes, nested.nodes)]

\* analyzer.rs:47-58  the key under which a node is counted
analyze_key(v) ==
    CASE v.op = "Shift" -> Shift(0)
      [] v.op = "Inc" -> Inc(0, 0, FALSE)
      [] v.op = "Dec" -> Dec(0, 0, FALSE)
      [] v.op = "Mul" -> Mul(0, 0, 0, FALSE)
      [] v.op = "Assign" -> Assign(0, 0, FALSE)
      [] v.op = "Scan" -> Scan(0)
      [] v.op = "Out" -> Out(0, FALSE)
      [] v.op = "In" -> Out(0, FALSE)
      [] v.op = "Comment" -> Comment(" ")
      [] v.op = "Conditional" -> Conditional(<< >>)

RECURSIVE analyze_fold(_, _)
\* analyzer.rs:43-67  the fold: the node is counted, then the results for
\* the body of a Conditional are merged in
analyze_fold(memo, code) ==
    IF code = << >> THEN memo
    ELSE LET v == Head(code)
             counted == [total |-> memo.total + 1,
                         nodes |-> entry_add(memo.nodes, analyze_key(v), 1)]
         IN  analyze_fold(
                 IF v.op = "Conditional"
                 THEN merge(counted, analyze_fold(AnalysisResults_default,
                                                  v.body))
                 ELSE counted,
                 Tail(code))

\* analyzer.rs:40-69  SimpleAnalyzer::analyze
analyze(code) == analyze_fold(AnalysisResults_default, code)

(***************************************************************************)
(* parser.rs:29-66  parse_code byte by byte: one action for each arm of    *)
(* the match on the next byte, and one for the checks after the loop.      *)
(***************************************************************************)

\* parser.rs:30-31  let mut nested = vec![parsed], before the first byte
InitParse ==
    /\ IdleMachine
    /\ phase = "parsing"
    /\ text \in Texts
    /\ parsed = None
    /\ options = None
    /\ optimized = None
    /\ again = None
    /\ plain = None
    /\ fast = None
    /\ fragments = None
    /\ whole = None
    /\ tree = None
    /\ pass = None
    /\ nested_bodies = <<<< >>>>
    /\ consumed = 0
    /\ results = None

\* parser.rs:33-36  the loop has a next byte, and it is c
NextChar(c) ==
    /\ phase = "parsing"
    /\ consumed < Len(text)
    /\ text[consumed + 1] = c

\* parse_code returns `value`
ParseReturns(value) ==
    /\ parsed' = value
    /\ phase' = "parsed"
    /\ UNCHANGED <<nested_bodies, consumed>>

\* parser.rs:37  '[' => nested.push(vec![])
ReadOpen ==
    /\ NextChar("[")
    /\ nested_bodies' = Append(nested_bodies, << >>)
    /\ consumed' = consumed + 1
    /\ UNCHANGED <<vm_vars, phase, text, parsed, options, optimized, again,
                   plain, fast, session_vars, pass_vars, results>>

\* ReadClose that hangs the loop into the enclosing body and leaves its
\* body on the stack
ReadClose_no_pop ==
    /\ NextChar("]")
    /\ IF Len(nested_bodies) < 2
       THEN ParseReturns(ParseErr("UnmatchedDelimiter"))
       ELSE /\ nested_bodies' =
                  [nested_bodies EXCEPT ![Len(nested_bodies) - 1] =
                      Append(@, Conditional(nested_bodies[Len(nested_bodies)]))]
            /\ consumed' = consumed + 1
            /\ UNCHANGED <<phase, parsed>>
    /\ UNCHANGED <<vm_vars, text, options, optimized, again, plain, fast,
                   session_vars, pass_vars, results>>

\* parser.rs:38-48  ']': the innermost body is popped and pushed, as a
\* Conditional, to the body below it
ReadClose ==
    /\ NextChar("]")
    /\ IF Len(nested_bodies) < 2
       THEN ParseReturns(ParseErr("UnmatchedDelimiter"))
       ELSE IF nested_bodies = << >> \/ Popped(nested_bodies) = << >>
       THEN ParseReturns(ParseErr("Internal"))
       ELSE /\ nested_bodies' =
                  PushToLast(Popped(nested_bodies),
                             Conditional(nested_bodies[Len(nested_bodies)]))
            /\ consumed' = consumed + 1
            /\ UNCHANGED <<phase, parsed>>
    /\ UNCHANGED <<vm_vars, text, options, optimized, again, plain, fast,
                   session_vars, pass_vars, results>>

\* parser.rs:49-52  any other byte: its node is pushed to the innermost body
ReadOther ==
    /\ \E c \in Alphabet \ {"[", "]"} : NextChar(c)
    /\ IF nested_bodies = << >> THEN ParseReturns(ParseErr("Internal"))
       ELSE /\ nested_bodies' =
                  PushToLast(nested_bodies, NodeFrom(text[consumed + 1]))
            /\ consumed' = consumed + 1
            /\ UNCHANGED <<phase, parsed>>
    /\ UNCHANGED <<vm_vars, text, options, optimized, again, plain, fast,
                   session_vars, pass_vars, results>>

\* parser.rs:56-65  the end of the input: the checks after the loop
EndOfCode ==
    /\ phase = "parsing"
    /\ consumed = Len(text)
    /\ ParseReturns(IF Len(nested_bodies) > 1 THEN ParseErr("MissingDelimiter")
                    ELSE IF Len(nested_bodies) # 1 THEN ParseErr("Internal")
                    ELSE ParseOk(nested_bodies[Len(nested_bodies)]))
    /\ UNCHANGED <<vm_vars, text, options, optimized, again, plain, fast,
                   session_vars, pass_vars, results>>

NextParse ==
    \/ ReadOpen
    \/ ReadClose
    \/ ReadOther
    \/ EndOfCode

\* parse_code on every source text, one byte at a time
SpecParse == InitParse /\ [][NextParse]_vars

(***************************************************************************)
(* src/main.rs: the command-line program, with its own Node, parser,       *)
(* optimizer and run_block.                                                 *)
(***************************************************************************)

\* main.rs:59-70  enum Node
main_Right(i) == [op |-> "Right", v |-> i]

main_Left(i) == [op |-> "Left", v |-> i]

main_Inc(i) == [op |-> "Inc", v |-> i]

main_Dec(i) == [op |-> "Dec", v |-> i]

main_Assign(i) == [op |-> "Assign", v |-> i]

main_Out == [op |-> "Out"]

main_In == [op |-> "In"]

main_Conditional(body) == [op |-> "Conditional", body |-> body]

main_Comment(c) == [op |-> "Comment", c |-> c]

\* main.rs:72-86  impl From<char> for Node
main_NodeFrom(c) ==
    CASE c = ">" -> main_Right(1)
      [] c = "<" -> main_Left(1)
      [] c = "+" -> main_Inc(1)
      [] c = "-" -> main_Dec(1)
      [] c = "." -> main_Out
      [] c = "," -> main_In
      [] OTHER   -> main_Comment(c)

\* main.rs:88-94  ParserError, the variants parse_code returns for a text
ParserError == {"UnmatchedDelimiter", "MissingDelimiter", "Internal"}

\* main.rs:165-193  the loop over the bytes, then the checks after it
RECURSIVE main_parse_loop(_, _)
main_parse_loop(nested, code) ==
    IF code = << >>
    THEN IF Len(nested) > 1 THEN ParseErr("MissingDelimiter")
         ELSE IF Len(nested) # 1 THEN ParseErr("Internal")
         ELSE ParseOk(nested[Len(nested)])
    ELSE LET next_char == Head(code) IN
         CASE next_char = "[" ->
                main_parse_loop(Append(nested, << >>), Tail(code))
           [] next_char = "]" ->
                IF Len(nested) < 2 THEN ParseErr("UnmatchedDelimiter")
                ELSE LET body == nested[Len(nested)]
                         rest == SubSeq(nested, 1, Len(nested) - 1)
                     IN  main_parse_loop(
                             PushToLast(rest, main_Conditional(body)),
                             Tail(code))
           [] OTHER ->
                IF nested = << >> THEN ParseErr("Internal")
                ELSE main_parse_loop(
                         PushToLast(nested, main_NodeFrom(next_char)),
                         Tail(code))

\* main.rs:161-194  parse_code
main_parse_code(code) == main_parse_loop(<<<< >>>>, code)

\* main.rs:196-208  filter_comments, flat-mapped over a sequence of nodes
RECURSIVE main_filter_comments(_)
main_filter_comments(code) ==
    IF code = << >> THEN << >>
    ELSE LET n == Head(code) IN
         (CASE n.op = "Comment" -> << >>
            [] n.op = "Conditional" ->
                 <<main_Conditional(main_filter_comments(n.body))>>
            [] OTHER -> <<n>>)
         \o main_filter_comments(Tail(code))

\* main.rs:210-267  join_repeated_operators
RECURSIVE main_join_repeated_operators(_), main_join_fold(_, _)
main_join_step(acc, c) ==
    LET last    == Last(acc)
        acc_new == Popped(acc)
        kept    == IF acc = << >> THEN acc_new ELSE Append(acc_new, last)
    IN  IF last.op = c.op /\ c.op \in {"Right", "Left", "Inc", "Dec"}
        THEN IF last.v + c.v > 255
             THEN acc_new \o <<last, c>>
             ELSE Append(acc_new, [last EXCEPT !.v = last.v + c.v])
        ELSE IF c.op = "Conditional"
        THEN Append(kept,
                    main_Conditional(main_join_repeated_operators(c.body)))
        ELSE Append(kept, c)

main_join_fold(acc, code) ==
    IF code = << >> THEN acc
    ELSE main_join_fold(main_join_step(acc, Head(code)), Tail(code))

main_join_repeated_operators(code) == main_join_fold(<< >>, code)

\* main.rs:269-283  replace_zero_loops (top level only)
main_replace_zero_loops(code) ==
    [i \in 1..Len(code) |->
        IF code[i].op = "Conditional" /\ code[i].body = <<main_Dec(1)>>
        THEN main_Assign(0)
        ELSE code[i]]

\* main.rs:285-294  optimize_code
main_optimize_code(code) ==
    main_replace_zero_loops(
        main_join_repeated_operators(main_filter_comments(code)))

\* main.rs:125-157  Node::execute, without Conditional; pos is a u16 and
\* the tape has NUMBER_OF_CELLS cells
main_execute(node, m) ==
    CASE node.op = "Right" ->
            [m EXCEPT !.pos = (@ + node.v) % U16_RANGE]
      [] node.op = "Left" ->
            [m EXCEPT !.pos = (@ - node.v) % U16_RANGE]
      [] node.op = "Inc" ->
            IF ~InBounds(m.pos) THEN Fail(m, "Panic")
            ELSE [m EXCEPT !.cells =
                     Store(@, m.pos, wrapping_add(Load(@, m.pos), node.v))]
      [] node.op = "Dec" ->
            IF ~InBounds(m.pos) THEN Fail(m, "Panic")
            ELSE [m EXCEPT !.cells =
                     Store(@, m.pos, wrapping_sub(Load(@, m.pos), node.v))]
      [] node.op = "Assign" ->
            IF ~InBounds(m.pos) THEN Fail(m, "Panic")
            ELSE [m EXCEPT !.cells = Store(@, m.pos, node.v)]
      [] node.op = "Out" ->
            IF ~InBounds(m.pos) THEN Fail(m, "Panic")
            ELSE IF m.room = 0 THEN Fail(m, "WriteError")
            ELSE [m EXCEPT !.stdout = Append(@, Load(m.cells, m.pos)),
                           !.room = @ - 1]
      [] node.op = "In" ->
            IF m.stdin = << >> THEN Fail(m, "ReadError")
            ELSE LET read == [m EXCEPT !.stdin = Tail(@)] IN
                 IF ~InBounds(m.pos) THEN Fail(read, "Panic")
                 ELSE [read EXCEPT !.cells = Store(@, m.pos, Head(m.stdin))]
      [] OTHER -> m

RECURSIVE main_run_block(_, _), main_while_loop(_, _)
\* main.rs:119-124  Node::Conditional
main_while_loop(body, x) ==
    IF x.m.result # "Ok" THEN x
    ELSE IF ~InBounds(x.m.pos) THEN [x EXCEPT !.m = Fail(@, "Panic")]
    ELSE IF Load(x.m.cells, x.m.pos) = 0 THEN x
    ELSE IF x.fuel = 0 THEN [x EXCEPT !.m = Fail(@, "OutOfFuel")]
    ELSE main_while_loop(body, main_run_block(body, [x EXCEPT !.fuel = @ - 1]))

\* main.rs:108-113  run_block
main_run_block(block, x) ==
    IF block = << >> \/ x.m.result # "Ok" THEN x
    ELSE LET node == Head(block)
             after == IF node.op = "Conditional"
                      THEN main_while_loop(node.body, x)
                      ELSE [x EXCEPT !.m = main_execute(node, x.m)]
         IN  main_run_block(Tail(block), after)

\* the brackets dropped from a source text
WithoutBrackets(code) == SelectSeq(code, LAMBDA c : c \notin {"[", "]"})

\* run_code that runs the instructions of an unparsable text before it
\* returns the parse error
run_code_eager(code, m) ==
    LET parsed_code == main_parse_code(code) IN
    IF ~parsed_code.ok
    THEN Fail(main_run_block(
                  main_optimize_code(main_parse_code(WithoutBrackets(code)).nodes),
                  [m |-> m, fuel |-> MaxIters]).m,
              parsed_code.error)
    ELSE main_run_block(main_optimize_code(parsed_code.nodes),
                        [m |-> m, fuel |-> MaxIters]).m

\* run_code on a State of its own: the tape and pointer left by earlier
\* calls are not seen, the streams are
run_code_fresh(code, m) ==
    LET parsed_code == main_parse_code(code)
        fresh       == [m EXCEPT !.pos = 0, !.cells = ZeroTape]
    IN  IF ~parsed_code.ok THEN Fail(m, parsed_code.error)
        ELSE main_run_block(main_optimize_code(parsed_code.nodes),
                            [m |-> fresh, fuel |-> MaxIters]).m

\* main.rs:296-300  run_code: the machine it leaves, its result the Ok, the
\* ParserError or the RuntimeError returned
run_code(code, m) ==
    LET parsed_code == main_parse_code(code) IN
    IF ~parsed_code.ok THEN Fail(m, parsed_code.error)
    ELSE main_run_block(main_optimize_code(parsed_code.nodes),
                        [m |-> m, fuel |-> MaxIters]).m

\* the lines typed at the prompt
Lines == UNION {[1..n -> Alphabet] : n \in 0..MaxLine}

\* tapes earlier lines of a session leave behind
SessionTapes == {ZeroTape, TapeOf((0 :> 1)), TapeOf((0 :> 255) @@ (1 :> 1))}

\* main.rs:314-319  start_repl at its prompt, the session's State being the
\* initial one or one left by earlier lines
InitMain ==
    /\ pos \in {0, 1}
    /\ cells \in SessionTapes
    /\ stdin \in Inputs
    /\ stdout = << >>
    /\ room \in Rooms
    /\ stack = << >>
    /\ scan_pos = NoScan
    /\ result = "Ok"
    /\ iters = 0
    /\ phase = "prompt"
    /\ text = << >>
    /\ parsed = None
    /\ options = None
    /\ optimized = None
    /\ again = None
    /\ plain = None
    /\ fast = None
    /\ fragments = None
    /\ whole = None
    /\ tree = None
    /\ pass = None
    /\ nested_bodies = None
    /\ consumed = 0
    /\ results = None

\* main.rs:322-326  rl.readline returns a line
Readline ==
    /\ phase = "prompt"
    /\ text' \in Lines
    /\ phase' = "line"
    /\ UNCHANGED <<vm_vars, parsed, options, optimized, again, plain, fast,
                   session_vars, pass_vars, parse_vars, results>>

\* main.rs:327-330  run_code on the line with the session's State; the
\* call returns only if the program of the line terminates
RunCode ==
    /\ phase = "line"
    /\ LET m == run_code(text, Machine(pos, cells, stdin, stdout, room)) IN
          /\ m.result # "OutOfFuel"
          /\ pos' = m.pos
          /\ cells' = m.cells
          /\ stdin' = m.stdin
          /\ stdout' = m.stdout
          /\ room' = m.room
          /\ result' = m.result
    /\ phase' = "returned"
    /\ UNCHANGED <<stack, scan_pos, iters,
                   text, parsed, options, optimized, again, plain, fast,
                   session_vars, pass_vars, parse_vars, results>>

NextMain ==
    \/ Readline
    \/ RunCode

\* one line of a start_repl session
SpecMain == InitMain /\ [][NextMain]_vars

\* the first lines of a two-line session: every text main.rs parses
FirstFragments ==
    {t \in UNION {[1..n -> Alphabet] : n \in 0..MaxFragment} :
        main_parse_code(t).ok}

\* the second lines: instructions that join_repeated_operators merges with
\* the end of the first line, loops and the loop replace_zero_loops rewrites
SecondFragments ==
    { << >>, <<"+">>, <<"-">>, <<">">>, <<"<">>, <<".">>, <<",">>,
      <<"[", "-", "]">>, <<"-", ".">>, <<"[", ">", "]", "+">>,
      <<"+", "[", "-", ">", "+", "<", "]">>, <<"[", ".", "-", "]">> }

\* main.rs:314-319  start_repl at its prompt before a session of two lines
InitSession ==
    /\ pos \in {0, 1}
    /\ cells \in SessionTapes
    /\ stdin \in Inputs
    /\ stdout = << >>
    /\ room \in Rooms
    /\ stack = << >>
    /\ scan_pos = NoScan
    /\ result = "Ok"
    /\ iters = 0
    /\ phase = "prompt"
    /\ text = << >>
    /\ parsed = None
    /\ options = None
    /\ optimized = None
    /\ again = None
    /\ plain = None
    /\ fast = None
    /\ fragments \in FirstFragments \X SecondFragments
    /\ whole = None
    /\ tree = None
    /\ pass = None
    /\ nested_bodies = None
    /\ consumed = 0
    /\ results = None

\* main.rs:327  run_code on `code` with the session's State and streams;
\* the call returns only if the program terminates
RunLine(code) ==
    LET m == run_code(code, Machine(pos, cells, stdin, stdout, room)) IN
        /\ m.result # "OutOfFuel"
        /\ text' = code
        /\ pos' = m.pos
        /\ cells' = m.cells
        /\ stdin' = m.stdin
        /\ stdout' = m.stdout
        /\ room' = m.room
        /\ result' = m.result

\* main.rs:320-330  the first line is read and run; `whole` is what one
\* run_code of both lines as a single text leaves from the same State
RunFirst ==
    /\ phase = "prompt"
    /\ RunLine(fragments[1])
    /\ whole' = run_code(fragments[1] \o fragments[2],
                         Machine(pos, cells, stdin, stdout, room))
    /\ phase' = "first"
    /\ UNCHANGED <<stack, scan_pos, iters, fragments, pass_vars, parse_vars, results,
                   parsed, options, optimized, again, plain, fast>>

\* main.rs:320-330  the next turn of the loop: the second line is read and
\* run on the State the first one left
RunSecond ==
    /\ phase = "first"
    /\ RunLine(fragments[2])
    /\ phase' = "second"
    /\ UNCHANGED <<stack, scan_pos, iters, session_vars, pass_vars, parse_vars, results,
                   parsed, options, optimized, again, plain, fast>>

NextSession ==
    \/ RunFirst
    \/ RunSecond

\* two lines of a start_repl session
SpecSession == InitSession /\ [][NextSession]_vars

(***************************************************************************)
(* One optimizer pass applied to a tree, then the tree and the pass's      *)
(* output run on the same State and streams.                               *)
(***************************************************************************)

\* the state before a pass is applied to one of `trees`
InitPass(trees) ==
    /\ IdleMachine
    /\ phase = "tree"
    /\ tree \in trees
    /\ pass = None
    /\ nested_bodies = None
    /\ consumed = 0
    /\ results = None
    /\ text = << >>
    /\ parsed = None
    /\ options = None
    /\ optimized = None
    /\ again = None
    /\ plain = None
    /\ fast = None
    /\ fragments = None
    /\ whole = None

\* the States the two trees are run on: the pointer at or next to the start
\* of the tape, values around the wrap of a cell
PassTapes == {TapeOf(f) : f \in [{0, 1, 2} -> {0, 2, 255}]}

\* optimizer.rs:26-28  OptimizationStep::apply of the pass `name`: `out` is
\* what it returns for the tree
ApplyPass(name, out) ==
    /\ phase = "tree"
    /\ pass' = name
    /\ optimized' = out
    /\ phase' = "rewritten"
    /\ UNCHANGED <<vm_vars, text, parsed, options, again, plain, fast,
                   session_vars, tree, parse_vars, results>>

\* vm.rs:85-95  run_block of the tree and of the pass's output, each on the
\* same State, input source and output sink
RunBoth ==
    /\ phase = "rewritten"
    /\ \E p \in {0, 1}, c \in PassTapes, i \in Inputs, r \in Rooms :
          /\ pos' = p
          /\ cells' = c
          /\ stdin' = i
          /\ room' = r
          /\ plain' = Run(tree, Machine(p, c, i, << >>, r))
          /\ fast' = Run(optimized, Machine(p, c, i, << >>, r))
    /\ phase' = "compared"
    /\ UNCHANGED <<stdout, stack, scan_pos, result, iters,
                   text, parsed, options, optimized, again,
                   session_vars, pass_vars, parse_vars, results>>

\* the nodes of the loop bodies handed to CollapseSimpleLoops
LoopBodyNodes ==
    { Dec(1, 0, FALSE), Inc(1, 1, FALSE), Inc(2, 0, FALSE),
      Dec(2, -1, FALSE), Inc(1, 1, TRUE), Shift(1) }

LoopBodies == UNION {[1..n -> LoopBodyNodes] : n \in 0..MaxBody}

\* a loop alone, a loop inside a loop, a loop between other nodes
LoopTrees ==
    {<<Conditional(b)>> : b \in LoopBodies}
    \cup {<<Conditional(<<Conditional(b), Dec(1, 0, FALSE)>>)>> :
             b \in {x \in LoopBodies : Len(x) <= 2}}
    \cup {<<Inc(1, 0, FALSE), Conditional(b), Shift(1)>> :
             b \in {x \in LoopBodies : Len(x) <= 2}}

InitLoops == InitPass(LoopTrees)

\* optimizer.rs:408-442  CollapseSimpleLoops::apply on the tree
ApplyCollapseSimpleLoops ==
    ApplyPass("CollapseSimpleLoops", CollapseSimpleLoops(tree))

NextLoops ==
    \/ ApplyCollapseSimpleLoops
    \/ RunBoth

\* CollapseSimpleLoops on trees with a loop, and the runs of both trees
SpecLoops == InitLoops /\ [][NextLoops]_vars

\* the nodes of the sequences handed to CollapseOffsets: pointer moves
\* (Shift(0) as MergeRepeatedOperators leaves it), plain and committing
\* instructions with offsets of either sign and 0
OffsetNodes ==
    { Shift(1), Shift(-1), Shift(-2), Shift(0),
      Inc(1, 0, FALSE), Inc(1, 0, TRUE), Dec(1, 2, TRUE),
      Assign(2, -1, TRUE), Out(0, FALSE), In(1, TRUE) }

OffsetTrees ==
    UNION {[1..n -> OffsetNodes] : n \in 0..MaxSeq}
    \cup {<<Conditional(<<a, b, Dec(1, 0, FALSE)>>)>> : a, b \in OffsetNodes}

InitOffsets == InitPass(OffsetTrees)

\* optimizer.rs:165-263  CollapseOffsets::apply on the tree
ApplyCollapseOffsets == ApplyPass("CollapseOffsets", CollapseOffsets(tree))

NextOffsets ==
    \/ ApplyCollapseOffsets
    \/ RunBoth

\* CollapseOffsets on instruction sequences, and the runs of both trees
SpecOffsets == InitOffsets /\ [][NextOffsets]_vars

\* the nodes of the sequences handed to MergeRepeatedOperators: moves next
\* to both ends of the offset range, increments and decrements whose sum
\* reaches and passes 255, on equal and on different offsets
MergeNodes ==
    { Shift(1), Shift(-1), Shift(I32_MAX - 1), Shift(I32_MIN + 1),
      Inc(1, 0, FALSE), Inc(254, 0, FALSE), Inc(1, 1, FALSE),
      Dec(1, 0, FALSE), Dec(255, 0, FALSE),
      Conditional(<<Shift(1), Shift(1), Inc(1, 0, TRUE), Inc(1, 0, TRUE)>>) }

\* the nodes handed to CollapseAssignments: the loop [-] alone and nested,
\* loops that are not [-], assignments and the changes that follow them
AssignNodes ==
    { Conditional(<<Dec(1, 0, FALSE)>>),
      Conditional(<<Conditional(<<Dec(1, 0, FALSE)>>), Inc(3, 0, FALSE)>>),
      Conditional(<<Dec(2, 0, FALSE)>>), Conditional(<<Dec(1, 1, FALSE)>>),
      Assign(0, 1, FALSE), Assign(5, 0, FALSE),
      Inc(3, 0, FALSE), Dec(3, 0, FALSE), Inc(3, 1, FALSE), Dec(3, 0, TRUE) }

\* the nodes handed to DeferMovements: moves, plain and committing
\* instructions of every kind, and the nodes that end a run
DeferNodes ==
    { Shift(1), Shift(-2), Inc(1, 0, FALSE), Inc(1, 1, TRUE),
      Dec(1, -1, TRUE), Mul(2, 1, 1, TRUE), Out(0, FALSE), In(2, TRUE),
      Scan(1), Conditional(<<Shift(1), Assign(0, 1, TRUE), Shift(-3)>>) }

\* the nodes handed to CollapseScanLoops: loops of one Shift, alone and
\* nested, loops of more than a Shift, and nodes that are not loops
ScanNodes ==
    { Conditional(<<Shift(1)>>), Conditional(<<Shift(-2)>>),
      Conditional(<<Shift(1), Shift(1)>>), Conditional(<< >>),
      Conditional(<<Inc(1, 0, FALSE), Conditional(<<Shift(-1)>>)>>),
      Conditional(<<Scan(1)>>), Shift(1), Scan(2), Dec(1, 0, FALSE) }

\* offsets and moves at the two ends of the signed offset range
LimitNodes ==
    { Shift(I32_MAX), Shift(I32_MIN), Shift(1), Shift(-1),
      Inc(1, I32_MAX, TRUE), Dec(1, I32_MIN, TRUE), Out(1, FALSE),
      Assign(1, -1, TRUE) }

PassNodes == {MergeNodes, AssignNodes, DeferNodes, ScanNodes, LimitNodes,
              OffsetNodes \cup {Shift(2), Out(-1, TRUE)}}

\* a Shift and the node after it, as the body of a loop and of a loop in a
\* loop
ShiftPairs ==
    {<<a, b>> : a \in {Shift(1), Shift(-2)},
                b \in OffsetNodes \cup {Conditional(<<Shift(1), Out(0, FALSE)>>)}}

PassTrees ==
    UNION {UNION {[1..n -> nodes] : n \in 0..MaxSeq} : nodes \in PassNodes}
    \cup ShiftPairs
    \cup {<<Conditional(t)>> : t \in ShiftPairs}
    \cup {<<Conditional(<<Conditional(t)>>)>> : t \in ShiftPairs}
    \cup {<<Conditional(t)>> : t \in [1..2 -> MergeNodes]}

InitPasses == InitPass(PassTrees)

\* optimizer.rs:53-99  MergeRepeatedOperators::apply on the tree
ApplyMergeRepeatedOperators ==
    ApplyPass("MergeRepeatedOperators", MergeRepeatedOperators(tree))

\* optimizer.rs:109-153  CollapseAssignments::apply on the tree
ApplyCollapseAssignments ==
    ApplyPass("CollapseAssignments", CollapseAssignments(tree))

\* optimizer.rs:274-378  DeferMovements::apply on the tree
ApplyDeferMovements == ApplyPass("DeferMovements", DeferMovements(tree))

\* optimizer.rs:453-464  CollapseScanLoops::apply on the tree
ApplyCollapseScanLoops ==
    ApplyPass("CollapseScanLoops", CollapseScanLoops(tree))

\* the pass `name` aborts: the panic of a debug build on an arithmetic
\* overflow (a release build wraps and returns a tree, as ApplyPass has it)
PassPanics(name) ==
    /\ phase = "tree"
    /\ pass' = name
    /\ phase' = "aborted"
    /\ UNCHANGED <<vm_vars, text, parsed, options, optimized, again, plain,
                   fast, session_vars, tree, parse_vars, results>>

\* optimizer.rs:187-196  CollapseOffsets::apply overflows on the tree
CollapseOffsetsPanics ==
    /\ CollapseOffsets_overflows(<< >>, tree)
    /\ PassPanics("CollapseOffsets")

\* optimizer.rs:312-363  DeferMovements::apply overflows on the tree
DeferMovementsPanics ==
    /\ DeferMovements_overflows(tree)
    /\ PassPanics("DeferMovements")

NextPasses ==
    \/ ApplyMergeRepeatedOperators
    \/ ApplyCollapseAssignments
    \/ ApplyCollapseOffsets
    \/ ApplyDeferMovements
    \/ ApplyCollapseScanLoops
    \/ CollapseOffsetsPanics
    \/ DeferMovementsPanics

\* each pass of the optimizer on its own, on instruction sequences
SpecPasses == InitPasses /\ [][NextPasses]_vars

\* the nodes of the trees handed to the analyzer: one or two of every kind,
\* with different values, offsets and flags, and loops in loops
AnalyzeNodes ==
    { Shift(1), Shift(-2), Inc(1, 0, FALSE), Inc(5, 2, TRUE),
      Dec(1, 0, FALSE), Mul(1, 2, 3, FALSE), Assign(0, 0, FALSE),
      Scan(1), Out(0, FALSE), In(0, FALSE), In(1, TRUE), Comment("x"),
      Conditional(<< >>),
      Conditional(<<Shift(5),
                    Conditional(<<Inc(5, 2, FALSE), Shift(2)>>)>>),
      Conditional(<<In(0, FALSE), Out(0, FALSE), Comment("y")>>) }

AnalyzeTrees == UNION {[1..n -> AnalyzeNodes] : n \in 0..MaxSeq}

InitAnalyze == InitPass(AnalyzeTrees)

\* analyzer.rs:40-69  SimpleAnalyzer::analyze on the tree, which it borrows
\* and cannot change
Analyze ==
    /\ phase = "tree"
    /\ results' = analyze(tree)
    /\ phase' = "analyzed"
    /\ UNCHANGED <<vm_vars, text, parsed, options, optimized, again, plain,
                   fast, session_vars, pass_vars, parse_vars>>

NextAnalyze ==
    \/ Analyze

\* the analyzer on instruction trees
SpecAnalyze == InitAnalyze /\ [][NextAnalyze]_vars

(***************************************************************************)
(* Claims about the interpreter, checked under Spec.                       *)
(***************************************************************************)

\* C4 (as claimed): the pointer is always a tape index in 0..N-1 and no
\* execution step indexes outside the tape (an index that fails its bounds
\* check shows as the result "Panic").
C4_TapeBounds == InBounds(pos) /\ result # "Panic"

\* C5 (as claimed): executing Shift(d) from pointer p sets the pointer to
\* (p + d) mod N, N the number of tape cells, and changes no cell.
C5_ShiftModN ==
    [][ExecShift => /\ pos' = (pos + Node.v) % NUMBER_OF_CELLS
                    /\ cells' = cells]_vars

\* C6: when In(offset, commit) executes and the input source has no more
\* bytes, execution returns ReadError, no cell changes (the addressed cell
\* keeps its value), and the pointer is not moved even when commit is true.
C6_EndOfInputIsHardError ==
    [][(ExecIn /\ stdin = << >>) =>
          /\ result' = "ReadError"
          /\ cells' = cells
          /\ pos' = pos
          /\ stdin' = stdin
          /\ stdout' = stdout]_vars

\* C6 witness: a committing In with a non-zero offset has just failed at the
\* end of input, and the cell it addresses holds a non-zero value.
C6_Witness ==
    /\ result = "ReadError"
    /\ HasNode
    /\ Node.op = "In"
    /\ Node.move_pointer
    /\ Node.offset # 0
    /\ Load(cells, offset_index(pos, Node.offset)) # 0

\* C7: once an instruction has returned a RuntimeError, no later instruction
\* of any active sequence executes and no Conditional starts another
\* iteration: the only steps left hand the same error from each run_block
\* call to its caller, and tape, pointer, input and output stay as they were
\* when the failing instruction began.
C7_FirstErrorAborts ==
    [][/\ (result \in RuntimeError =>
              /\ result' = result
              /\ Len(stack') = Len(stack) - 1
              /\ stack' = SubSeq(stack, 1, Len(stack'))
              /\ <<pos, cells, stdin, stdout, room>>' =
                    <<pos, cells, stdin, stdout, room>>)
       /\ ((result = "Running" /\ result' \in RuntimeError) =>
              /\ stack' = stack
              /\ <<pos, cells, stdin, stdout, room>>' =
                    <<pos, cells, stdin, stdout, room>>)]_vars

\* C7 witness: an instruction inside a nested Conditional has failed while
\* its own sequence still has a later instruction, an enclosing sequence
\* has one too, and the cell under the pointer is non-zero (the enclosing
\* loops would iterate again).
C7_Witness ==
    /\ result \in RuntimeError
    /\ Len(stack) >= 3
    /\ Top.pc < Len(Top.block)
    /\ stack[Len(stack) - 1].pc < Len(stack[Len(stack) - 1].block)
    /\ InBounds(pos)
    /\ Load(cells, pos) # 0

\* C9: a Conditional tests the cell at the live pointer before every
\* iteration: its body is entered exactly when that cell is non-zero (so
\* zero times when it is 0 on entry), and when the Conditional completes
\* the cell at the then-current pointer is 0.
C9_LoopSemantics ==
    [][(ExecConditional /\ result' = "Running") =>
          /\ (Load(cells, pos) # 0 =>
                /\ Len(stack') = Len(stack) + 1
                /\ stack'[Len(stack')] = [block |-> Node.body, pc |-> 1])
          /\ (Load(cells, pos) = 0 => stack' = Advance)
          /\ (stack' = Advance => Load(cells', pos') = 0)]_vars

\* C9 witness: a Conditional whose body moves the pointer has completed
\* after at least one iteration, at a pointer other than the one it was
\* entered at, whose cell is still non-zero.
C9_Witness ==
    /\ result = "Running"
    /\ stack # << >>
    /\ Top.pc = 2
    /\ Len(stack) = 1
    /\ Top.block[1] = Conditional(<<Shift(1)>>)
    /\ iters >= 1
    /\ pos = 1
    /\ Load(cells, 0) # 0

\* C10 (as claimed): when Scan(i) completes from pointer p, the pointer is
\* (p + k*i) mod N for the least k >= 0 such that the cell at that index is
\* 0, no cell is changed and nothing is read or written.
C10_ScanModN ==
    [][(ExecScan /\ stack' = Advance) =>
          /\ \E k \in 0..MaxIters :
                /\ pos' = (pos + k * Node.v) % NUMBER_OF_CELLS
                /\ Load(cells, pos') = 0
                /\ \A j \in 0..(k - 1) :
                      Load(cells, (pos + j * Node.v) % NUMBER_OF_CELLS) # 0
          /\ <<cells, stdin, stdout, room>>' = <<cells, stdin, stdout, room>>]_vars

\* C11 (as claimed): Mul(f, destOffset, srcOffset, commit) from pointer p,
\* with a = (p + srcOffset) mod N and b = (a + destOffset) mod N, sets
\* cell[b] to old cell[b] plus (f >= 0) or minus (f < 0) old cell[a] * |f|,
\* modulo 256, changes no other cell, and sets the pointer to a exactly
\* when commit is true.
C11_MulResult ==
    [][ExecMul =>
          LET a      == (pos + Node.offset) % NUMBER_OF_CELLS
              b      == (a + Node.into) % NUMBER_OF_CELLS
              scaled == (Load(cells, a) * Abs(Node.v)) % U8_RANGE
              new    == IF Node.v >= 0
                        THEN (Load(cells, b) + scaled) % U8_RANGE
                        ELSE (Load(cells, b) - scaled) % U8_RANGE
          IN  /\ cells' = Store(cells, b, new)
              /\ pos' = IF Node.move_pointer THEN a ELSE pos]_vars

\* C12 (as claimed): for every factor and every destOffset, the cell at
\* pointer + srcOffset holds the same value after Mul as before it.
C12_MulSourceUnmodified ==
    [][ExecMul =>
          Load(cells', offset_index(pos, Node.offset)) =
             Load(cells, offset_index(pos, Node.offset))]_vars

\* C12 (amended): Mul leaves the cell at pointer + srcOffset as it was
\* whenever destOffset is not 0 modulo 2^16; with destOffset 0 the source
\* is the destination and receives the sum or difference.
C12_MulSourceUnlessAliased ==
    [][(ExecMul /\ Node.into % U16_RANGE # 0) =>
          Load(cells', offset_index(pos, Node.offset)) =
             Load(cells, offset_index(pos, Node.offset))]_vars

\* C12 witness: Mul(3, 2, 0, false) has executed as the first node from
\* pointer 0 with a source cell of 1: the destination cell 2 holds a sum no
\* initial tape has, the source still holds 1.
C12_Witness ==
    /\ result = "Running"
    /\ Len(stack) = 1
    /\ Top.pc = 2
    /\ Top.block[1] = Mul(3, 2, 0, FALSE)
    /\ pos = 0
    /\ Load(cells, 0) = 1
    /\ Load(cells, 2) \in {3, 4, 2}

\* C13 (as claimed): Inc(v, o, c) sets the cell at (pointer + o) mod N to
\* (old + v) mod 256 and Dec(v, o, c) sets it to (old - v) mod 256, never
\* returning an error, and every other cell keeps its value.
C13_CellArithmeticWraps ==
    [][(ExecInc \/ ExecDec) =>
          LET a   == (pos + Node.offset) % NUMBER_OF_CELLS
              new == IF Node.op = "Inc"
                     THEN (Load(cells, a) + Node.v) % U8_RANGE
                     ELSE (Load(cells, a) - Node.v) % U8_RANGE
          IN  /\ result' = "Running"
              /\ cells' = Store(cells, a, new)]_vars

\* C14 (as claimed): a successful Inc, Dec, Assign, In or Out with
\* (offset, commit) leaves the pointer unchanged when commit is false and
\* sets it to (pointer + offset) mod N when commit is true.
C14_CommitSemantics ==
    [][((ExecInc \/ ExecDec \/ ExecAssign \/ ExecIn \/ ExecOut)
            /\ result' = "Running") =>
          pos' = IF Node.move_pointer
                 THEN (pos + Node.offset) % NUMBER_OF_CELLS
                 ELSE pos]_vars

(***************************************************************************)
(* Claims about the optimizer.                                             *)
(***************************************************************************)

\* C1 (as claimed), under SpecEquiv: whenever the comment-stripped tree of a
\* parsed program runs to completion from a State with an input, the tree
\* optimize_code returns for it with all switches enabled runs to completion
\* from the same State and input with the same final tape, the same final
\* pointer and the same output bytes.
C1_SemanticEquivalence ==
    (phase = "executed" /\ plain.result = "Ok" /\ fast.result # "OutOfFuel") =>
        /\ fast.result = "Ok"
        /\ fast.pos = plain.pos
        /\ fast.cells = plain.cells
        /\ fast.stdout = plain.stdout

\* C2 (as claimed), under SpecOpt: optimize_code applied with the default
\* options to its own output returns that output unchanged.
C2_Idempotence == phase = "reoptimized" => again = optimized

\* the source text with every character that parses to a Comment removed
StripText(code) ==
    SelectSeq(code, LAMBDA c : c \in {"[", "]"} \/ NodeFrom(c).op # "Comment")

RECURSIVE HasComment(_)
\* a Comment node occurs in the tree, at the top level or in any body
HasComment(code) ==
    \E i \in 1..Len(code) :
        \/ code[i].op = "Comment"
        \/ (code[i].op = "Conditional" /\ HasComment(code[i].body))

\* C3, under SpecOpt: with all five switches off optimize_code returns the
\* input tree with the Comment nodes removed at every depth and every other
\* node unchanged and in order (the tree the same source parses to once its
\* comment characters are deleted); for every combination of the switches
\* the returned tree holds no Comment node at any depth.
C3_PassLocality ==
    phase = "optimized" =>
        /\ ~HasComment(optimized)
        /\ (options = NoOptions =>
                optimized = parse_code(StripText(text)).nodes)

\* C3 witness: all switches off, a source with a comment inside a loop body
\* and instructions the enabled passes would rewrite, returned as parsed
\* apart from the comment.
C3_Witness ==
    /\ phase = "optimized"
    /\ options = NoOptions
    /\ text = <<"[", "x", "-", "]">>
    /\ optimized = <<Conditional(<<Dec(1, 0, FALSE)>>)>>

(***************************************************************************)
(* Claims about src/main.rs, checked under SpecMain.                       *)
(***************************************************************************)

\* C16, under SpecSession: for bracket-balanced fragments A and B, running
\* A and then B through run_code on the same State and streams, with no
\* error in either run, ends with the same tape, pointer, input and output
\* as one run_code of the text AB from the same starting State.
C16_FragmentsShareState ==
    [][(/\ RunSecond
        /\ result = "Ok"
        /\ result' = "Ok"
        /\ whole.result # "OutOfFuel") =>
          /\ whole.result = "Ok"
          /\ whole.pos = pos'
          /\ whole.cells = cells'
          /\ whole.stdin = stdin'
          /\ whole.stdout = stdout']_vars

\* C16 witness: the lines "++" and "+[->+<]" have both run from pointer 0
\* with cell 0 holding 1: the Inc nodes that meet at the seam are merged in
\* the single text only, and either way cell 1 has received 4.
C16_Witness ==
    /\ phase = "second"
    /\ result = "Ok"
    /\ fragments = <<<<"+", "+">>, <<"+", "[", "-", ">", "+", "<", "]">>>>
    /\ whole.result = "Ok"
    /\ pos = 0
    /\ Load(cells, 0) = 0
    /\ Load(cells, 1) = 4

RECURSIVE Unbalanced(_, _)
\* the brackets of the text do not pair up: a "]" with no open "[", or a
\* "[" still open at the end (depth = the brackets open so far)
Unbalanced(code, depth) ==
    IF code = << >> THEN depth # 0
    ELSE CASE Head(code) = "[" -> Unbalanced(Tail(code), depth + 1)
           [] Head(code) = "]" -> depth = 0 \/ Unbalanced(Tail(code), depth - 1)
           [] OTHER -> Unbalanced(Tail(code), depth)

\* C8, under SpecMain: run_code on a source text with unbalanced brackets
\* returns a parse error and leaves every cell, the pointer, the input
\* source and the output sink exactly as before the call; no instruction
\* of the text is executed, the ones before the offending bracket included.
C8_ParseErrorsPrecedeExecution ==
    [][(RunCode /\ Unbalanced(text, 0)) =>
          /\ result' \in ParserError
          /\ <<pos, cells, stdin, stdout, room>>' =
                <<pos, cells, stdin, stdout, room>>]_vars

\* C8 witness: run_code has returned the parse error for a line whose
\* instructions before the unmatched "]" would have printed a byte and
\* changed the cell under the pointer, with room left in the sink.
C8_Witness ==
    /\ phase = "returned"
    /\ text = <<".", "+", "]">>
    /\ result = "UnmatchedDelimiter"
    /\ room > 0
    /\ stdout = << >>
    /\ Load(cells, pos) # 0

(***************************************************************************)
(* Claims about the parser, checked under SpecOpt.                         *)
(***************************************************************************)

\* some prefix of the text holds more "]" than "["
ExcessClose(code) ==
    \E k \in 1..Len(code) :
        Count(SubSeq(code, 1, k), "]") > Count(SubSeq(code, 1, k), "[")

RECURSIVE Render(_)
\* the source text of a tree: each Conditional as its body between
\* brackets, every other node as the character it is parsed from
Render(nodes) ==
    IF nodes = << >> THEN << >>
    ELSE LET n == Head(nodes) IN
         (IF n.op = "Conditional"
          THEN <<"[">> \o Render(n.body) \o <<"]">>
          ELSE <<CHOOSE c \in Alphabet \ {"[", "]"} : NodeFrom(c) = n>>)
         \o Render(Tail(nodes))

\* C15, under SpecOpt: parse_code returns UnmatchedDelimiter iff some
\* prefix of the text holds more "]" than "[", whatever follows; otherwise
\* MissingDelimiter iff the whole text holds more "[" than "]"; otherwise
\* Ok with a tree whose Conditional nesting is the bracket nesting and whose
\* other nodes stand in source order (the tree renders back to the text).
C15_BracketMatching ==
    phase = "parsed" =>
        IF ExcessClose(text)
        THEN parsed = ParseErr("UnmatchedDelimiter")
        ELSE IF Count(text, "[") > Count(text, "]")
        THEN parsed = ParseErr("MissingDelimiter")
        ELSE /\ parsed.ok
             /\ Render(parsed.nodes) = text

\* C15 witness: a text whose first excess "]" is followed by a "[" that is
\* never closed has been parsed to UnmatchedDelimiter.
C15_Witness ==
    /\ phase = "parsed"
    /\ text = <<"[", "]", "]", "[">>
    /\ parsed = ParseErr("UnmatchedDelimiter")

(***************************************************************************)
(* Claims about single optimizer passes.                                   *)
(***************************************************************************)

\* the loop bodies the claims describe as accepted: not empty, only Inc and
\* Dec nodes with commit = false, a Dec(1, 0, false) among them
IsMultiplicationBody(body) ==
    /\ body # << >>
    /\ \A i \in 1..Len(body) :
          /\ body[i].op \in {"Inc", "Dec"}
          /\ body[i].move_pointer = FALSE
    /\ \E i \in 1..Len(body) :
          body[i].op = "Dec" /\ body[i].v = 1 /\ body[i].offset = 0

\* C17 (as claimed), under SpecLoops: for a Conditional whose body
\* CollapseSimpleLoops accepts and a State from which the loop terminates,
\* the emitted Mul ... Mul, Assign(0, 0, false) sequence ends with the same
\* tape and pointer as the loop.
C17_MulLoopRewriteCorrect ==
    (/\ phase = "compared"
     /\ Len(tree) = 1
     /\ tree[1].op = "Conditional"
     /\ IsMultiplicationBody(tree[1].body)
     /\ plain.result = "Ok") =>
        /\ fast.result = "Ok"
        /\ fast.cells = plain.cells
        /\ fast.pos = plain.pos

\* C18 (as claimed), under SpecOffsets: for every instruction sequence,
\* Shift(0) and committing instructions with offset 0 included, and every
\* State from which it runs to completion, the output of CollapseOffsets
\* runs to completion with the same tape, pointer, input left and output.
C18_CollapseOffsetsPreserves ==
    (phase = "compared" /\ plain.result = "Ok") =>
        /\ fast.result = "Ok"
        /\ fast.cells = plain.cells
        /\ fast.pos = plain.pos
        /\ fast.stdin = plain.stdin
        /\ fast.stdout = plain.stdout

\* the Dec(1, 0, false) of a multiplication loop
IsCounter(n) == n.op = "Dec" /\ n.v = 1 /\ n.offset = 0 /\ ~n.move_pointer

\* one Mul(+v, offset, 0, false) per Inc(v, offset, false) and one
\* Mul(-v, offset, 0, false) per Dec(v, offset, false) other than the
\* counter, in body order
MulsOf(body) ==
    LET kept == SelectSeq(body, LAMBDA n : ~IsCounter(n)) IN
    [i \in 1..Len(kept) |->
        Mul(IF kept[i].op = "Inc" THEN kept[i].v ELSE -kept[i].v,
            kept[i].offset, 0, FALSE)]

RECURSIVE MulLoopsReplaced(_)
\* the tree with every Conditional whose body is a multiplication body
\* replaced by its Mul nodes and one Assign(0, 0, false), every other
\* Conditional kept with its body treated the same way
MulLoopsReplaced(t) ==
    IF t = << >> THEN << >>
    ELSE (IF Head(t).op # "Conditional" THEN <<Head(t)>>
          ELSE IF IsMultiplicationBody(Head(t).body)
          THEN MulsOf(Head(t).body) \o <<Assign(0, 0, FALSE)>>
          ELSE <<Conditional(MulLoopsReplaced(Head(t).body))>>)
         \o MulLoopsReplaced(Tail(t))

\* C19, under SpecLoops: CollapseSimpleLoops rewrites a Conditional, at any
\* depth, exactly when its body is non-empty, holds only Inc/Dec nodes with
\* commit = false and contains Dec(1, 0, false) (the counter, every
\* occurrence of it); the replacement is one Mul(+v, offset, 0, false) per
\* Inc and one Mul(-v, offset, 0, false) per other Dec, in body order, then
\* exactly one Assign(0, 0, false); every other Conditional is kept with its
\* body processed, every other node unchanged.
C19_MulLoopShape ==
    phase \in {"rewritten", "compared"} => optimized = MulLoopsReplaced(tree)

\* C19 witness: a loop nested in a loop that is not collapsible has been
\* replaced by a Mul and an Assign inside the kept outer loop.
C19_Witness ==
    /\ phase = "rewritten"
    /\ tree = <<Conditional(<<Conditional(<<Dec(2, -1, FALSE),
                                            Dec(1, 0, FALSE)>>),
                              Dec(1, 0, FALSE)>>)>>
    /\ optimized = <<Conditional(<<Mul(-2, -1, 0, FALSE),
                                   Assign(0, 0, FALSE),
                                   Dec(1, 0, FALSE)>>)>>

RECURSIVE MulPaired(_)
\* in the tree, at every depth, each Mul is followed by another Mul with
\* the same source offset or by Assign(0, s, false), s its source offset
MulPaired(t) ==
    \A i \in 1..Len(t) :
        /\ t[i].op = "Conditional" => MulPaired(t[i].body)
        /\ t[i].op = "Mul" =>
              /\ i < Len(t)
              /\ \/ t[i + 1].op = "Mul" /\ t[i + 1].offset = t[i].offset
                 \/ t[i + 1] = Assign(0, t[i].offset, FALSE)

\* C20, under SpecOpt: in the output of optimize_code with all switches
\* enabled, for every parsed source, every maximal run of consecutive Mul
\* nodes is immediately followed by Assign(0, s, false), s the source offset
\* of those Mul nodes: the passes run after the loops are collapsed never
\* separate, reorder or re-target them.
C20_MulAssignPairing ==
    (phase = "optimized" /\ options = DefaultOptions) => MulPaired(optimized)

\* C20 witness: a loop entered after a pointer move has been collapsed and
\* DeferMovements has re-targeted its two Mul nodes and their Assign to the
\* source offset 1.
C20_Witness ==
    /\ phase = "optimized"
    /\ options = DefaultOptions
    /\ text = <<">", "[", "-", ">", "+", ">", "-", "<", "<", "]", "+">>
    /\ optimized = <<Mul(1, 1, 1, FALSE), Mul(-1, 2, 1, FALSE),
                     Assign(0, 1, FALSE), Inc(1, 1, FALSE), Shift(1)>>


(***************************************************************************)
(* Claims about the single passes, checked under SpecPasses.               *)
(***************************************************************************)

\* a node that is an instruction with an offset: Inc, Dec, Assign, Mul, In,
\* Out
IsInstruction(n) == IsValueNode(n) \/ IsIoNode(n) \/ n.op = "Mul"

\* the offsets and moves at most this far from 0 are the ones whose sums stay
\* far from the ends of the offset range
SmallOffset == 16

RECURSIVE SmallOffsets(_)
\* every move and offset of the tree is at most SmallOffset from 0
SmallOffsets(code) ==
    \A i \in 1..Len(code) :
        /\ code[i].op \in {"Shift", "Scan"} =>
               code[i].v \in -SmallOffset..SmallOffset
        /\ IsInstruction(code[i]) =>
               code[i].offset \in -SmallOffset..SmallOffset
        /\ code[i].op = "Conditional" => SmallOffsets(code[i].body)

RECURSIVE DeferredRun(_, _), Deferred(_, _)
\* the normal form of one straight-line run, `carry` the movement of the
\* nodes before it: the instructions without commit at their offset plus
\* carry, then one Shift of the total movement unless that is 0
DeferredRun(run, carry) ==
    IF run = << >>
    THEN IF carry = 0 THEN << >> ELSE <<Shift(carry)>>
    ELSE LET n == Head(run) IN
         IF n.op = "Shift" THEN DeferredRun(Tail(run), carry + n.v)
         ELSE IF IsInstruction(n)
         THEN <<[n EXCEPT !.offset = carry + @, !.move_pointer = FALSE]>>
              \o DeferredRun(Tail(run),
                             IF n.move_pointer THEN carry + n.offset ELSE carry)
         ELSE DeferredRun(Tail(run), carry)

\* the normal form of a tree: every maximal run between Conditional and Scan
\* nodes in the normal form, at every depth; `run` is the run collected so
\* far
Deferred(code, run) ==
    IF code = << >> THEN DeferredRun(run, 0)
    ELSE LET n == Head(code) IN
         IF n.op = "Conditional"
         THEN DeferredRun(run, 0) \o <<Conditional(Deferred(n.body, << >>))>>
              \o Deferred(Tail(code), << >>)
         ELSE IF n.op = "Scan"
         THEN DeferredRun(run, 0) \o <<n>> \o Deferred(Tail(code), << >>)
         ELSE Deferred(Tail(code), Append(run, n))

\* C21 (as claimed): the output of DeferMovements has every maximal
\* straight-line run, of every length and at every depth, in the normal form:
\* each instruction without commit at its offset plus the movement before it,
\* and at most one Shift, the last node of the run, carrying the run's total
\* displacement and absent when that is 0.
C21_DeferNormalForm ==
    (phase = "rewritten" /\ pass = "DeferMovements" /\ SmallOffsets(tree))
        => optimized = Deferred(tree, << >>)

\* the tree is a committing Inc, Dec, Assign, In or Out followed by a Shift,
\* neither the offset nor the move at the lower end of the offset range
\* (whose absolute value is not an offset)
CommitThenShift ==
    /\ Len(tree) = 2
    /\ IsValueNode(tree[1]) \/ IsIoNode(tree[1])
    /\ tree[1].move_pointer
    /\ tree[2].op = "Shift"
    /\ tree[1].offset > I32_MIN
    /\ tree[2].v > I32_MIN

\* C22: CollapseOffsets on a committing Inc/Dec/Assign/In/Out with offset o
\* followed by Shift(s), o and s of opposite signs, diff = |o| - |s|: for
\* diff = 0 the instruction at o without commit and no Shift; for diff > 0
\* Shift(sign(o) * diff), then the instruction at o - sign(o) * diff without
\* commit; for diff < 0 the instruction at o without commit, then a Shift of
\* magnitude |diff| with the sign of s.  With o and s of the same sign both
\* nodes are emitted unchanged.
C22_OppositeSignAlgebra ==
    (phase = "rewritten" /\ pass = "CollapseOffsets" /\ CommitThenShift) =>
        LET o == tree[1].offset
            s == tree[2].v
            diff == Abs(o) - Abs(s)
            plain_node == [tree[1] EXCEPT !.move_pointer = FALSE]
        IN  /\ (Signum(o) * Signum(s) = -1 /\ diff = 0) =>
                   optimized = <<plain_node>>
            /\ (Signum(o) * Signum(s) = -1 /\ diff > 0) =>
                   optimized = <<Shift(Signum(o) * diff),
                                 [plain_node EXCEPT
                                     !.offset = o - Signum(o) * diff]>>
            /\ (Signum(o) * Signum(s) = -1 /\ diff < 0) =>
                   optimized = <<plain_node, Shift(Signum(s) * Abs(diff))>>
            /\ Signum(o) * Signum(s) = 1 => optimized = tree

\* C22 witness: a committing instruction with a negative offset was followed
\* by a longer move to the right, and the pass has left the instruction and
\* a residual move.
C22_Witness ==
    /\ phase = "rewritten"
    /\ pass = "CollapseOffsets"
    /\ CommitThenShift
    /\ tree[1].offset < 0
    /\ tree[2].v > -tree[1].offset
    /\ Len(optimized) = 2

\* a Shift followed by one node
ShiftThenNode(code) == Len(code) = 2 /\ code[1].op = "Shift"

\* what C23 says of a Shift followed by one node: the node with the move as
\* its offset and commit = true when it is Inc, Dec, Assign, In or Out with
\* offset 0 and commit = false, both nodes in place otherwise (the body of a
\* Conditional rewritten by the pass)
Absorbed(code) ==
    LET n == code[2] IN
    IF (IsValueNode(n) \/ IsIoNode(n)) /\ n.offset = 0 /\ ~n.move_pointer
    THEN <<[n EXCEPT !.offset = code[1].v, !.move_pointer = TRUE]>>
    ELSE IF n.op = "Conditional"
    THEN <<code[1], Conditional(CollapseOffsets(n.body))>>
    ELSE code

\* the tree is one loop and nothing else
OneLoop(code) == Len(code) = 1 /\ code[1].op = "Conditional"

\* C23: CollapseOffsets replaces a Shift(d) followed by Inc(v, 0, false),
\* Dec(v, 0, false), Assign(v, 0, false), In(0, false) or Out(0, false) by
\* that instruction with offset d and commit = true, at the top level and in
\* loop bodies, for d of either sign; a Shift followed by any other node
\* stays in place.
C23_ShiftAbsorption ==
    (phase = "rewritten" /\ pass = "CollapseOffsets") =>
        /\ ShiftThenNode(tree) => optimized = Absorbed(tree)
        /\ (OneLoop(tree) /\ ShiftThenNode(tree[1].body)) =>
               optimized = <<Conditional(Absorbed(tree[1].body))>>
        /\ (/\ OneLoop(tree)
            /\ OneLoop(tree[1].body)
            /\ ShiftThenNode(tree[1].body[1].body)) =>
               optimized =
                   <<Conditional(<<Conditional(
                         Absorbed(tree[1].body[1].body))>>)>>

\* C23 witness: a move to the left in front of a plain Out, in a loop inside
\* a loop, has become the offset of a committing Out.
C23_Witness ==
    /\ phase = "rewritten"
    /\ pass = "CollapseOffsets"
    /\ OneLoop(tree)
    /\ OneLoop(tree[1].body)
    /\ tree[1].body[1].body = <<Shift(-2), Out(0, FALSE)>>
    /\ optimized = <<Conditional(<<Conditional(<<Out(-2, TRUE)>>)>>)>>

\* two Shift nodes
TwoShifts(code) ==
    Len(code) = 2 /\ code[1].op = "Shift" /\ code[2].op = "Shift"

\* two Inc nodes or two Dec nodes, both with commit = false
TwoChanges(code) ==
    /\ Len(code) = 2
    /\ code[1].op \in {"Inc", "Dec"}
    /\ code[2].op = code[1].op
    /\ ~code[1].move_pointer
    /\ ~code[2].move_pointer

\* what C24 says of two adjacent nodes: one Shift of the summed delta when
\* the sum is in the offset range, one Inc or Dec of the summed amount when
\* the offsets are equal and the sum is at most 255, both nodes otherwise
Merged(code) ==
    IF TwoShifts(code) /\ fits_i32(code[1].v, code[2].v)
    THEN <<Shift(code[1].v + code[2].v)>>
    ELSE IF /\ TwoChanges(code)
            /\ code[1].offset = code[2].offset
            /\ code[1].v + code[2].v <= 255
    THEN <<[code[1] EXCEPT !.v = code[1].v + code[2].v]>>
    ELSE code

\* C24: MergeRepeatedOperators, left to right and at every depth, makes one
\* Shift of two adjacent Shift nodes unless the summed delta is outside the
\* signed offset range, and one node of two adjacent Inc (or Dec) nodes
\* with commit = false and equal offsets unless the summed amount exceeds
\* 255; when the merge is rejected or the offsets differ both nodes are
\* emitted unchanged and in order: Shift(MAX-1), Shift(1), Shift(1) gives
\* Shift(MAX), Shift(1).
C24_MergeUnlessOutOfRange ==
    (phase = "rewritten" /\ pass = "MergeRepeatedOperators") =>
        /\ (TwoShifts(tree) \/ TwoChanges(tree)) => optimized = Merged(tree)
        /\ (/\ OneLoop(tree)
            /\ TwoShifts(tree[1].body) \/ TwoChanges(tree[1].body)) =>
               optimized = <<Conditional(Merged(tree[1].body))>>
        /\ tree = <<Shift(I32_MAX - 1), Shift(1), Shift(1)>> =>
               optimized = <<Shift(I32_MAX), Shift(1)>>
        /\ tree = <<Inc(254, 0, FALSE), Inc(1, 0, FALSE), Inc(1, 0, FALSE)>> =>
               optimized = <<Inc(255, 0, FALSE), Inc(1, 0, FALSE)>>

\* C24 witness: of three moves the first two were merged into the largest
\* offset and the third, which no longer fits, was kept.
C24_Witness ==
    /\ phase = "rewritten"
    /\ pass = "MergeRepeatedOperators"
    /\ tree = <<Shift(I32_MAX - 1), Shift(1), Shift(1)>>
    /\ optimized = <<Shift(I32_MAX), Shift(1)>>

\* the nodes of a sequence with every Conditional whose body is exactly
\* [Dec(1, 0, false)] replaced by Assign(0, 0, false), and with the bodies
\* of the other loops as CollapseAssignments leaves them
ZeroLoopsReplaced(code) ==
    [i \in 1..Len(code) |->
        IF code[i].op # "Conditional" THEN code[i]
        ELSE IF code[i].body = <<Dec(1, 0, FALSE)>> THEN Assign(0, 0, FALSE)
        ELSE Conditional(CollapseAssignments(code[i].body))]

\* what C25 says of two adjacent nodes once the loops are replaced: an
\* Assign(0, o, false) and an Inc(v, o, false) after it are Assign(v, o,
\* false), with a Dec(v, o, false) Assign((256 - v) mod 256, o, false), and
\* every other pair stays
Folded(code) ==
    IF /\ code[1].op = "Assign"
       /\ code[1].v = 0
       /\ ~code[1].move_pointer
       /\ code[2].op \in {"Inc", "Dec"}
       /\ ~code[2].move_pointer
       /\ code[2].offset = code[1].offset
    THEN <<Assign(IF code[2].op = "Inc" THEN code[2].v
                  ELSE (U8_RANGE - code[2].v) % U8_RANGE,
                  code[1].offset, FALSE)>>
    ELSE code

\* C25: CollapseAssignments replaces every Conditional whose body is exactly
\* [Dec(1, 0, false)], at any depth, by Assign(0, 0, false); then, left to
\* right, Assign(0, o, false) followed by Inc(v, o, false) becomes
\* Assign(v, o, false) and followed by Dec(v, o, false) becomes
\* Assign((256 - v) mod 256, o, false); an Assign followed by an Inc or Dec
\* at a different offset stays two nodes.
C25_CollapseAssignments ==
    (phase = "rewritten" /\ pass = "CollapseAssignments") =>
        /\ Len(tree) = 1 => optimized = ZeroLoopsReplaced(tree)
        /\ Len(tree) = 2 => optimized = Folded(ZeroLoopsReplaced(tree))
        /\ (OneLoop(tree) /\ Len(tree[1].body) = 2) =>
               optimized =
                   <<Conditional(Folded(ZeroLoopsReplaced(tree[1].body)))>>

\* C25 witness: the loop [-] followed by a decrement of 3 of the same cell
\* has become the assignment of 253.
C25_Witness ==
    /\ phase = "rewritten"
    /\ pass = "CollapseAssignments"
    /\ tree = <<Conditional(<<Dec(1, 0, FALSE)>>), Dec(3, 0, FALSE)>>
    /\ optimized = <<Assign(253, 0, FALSE)>>

RECURSIVE ScansReplaced(_, _)
\* `out` is `code` with the loops of a single Shift(i), at every depth,
\* replaced by Scan(i): node for node, a Conditional whose body is one Shift
\* is a Scan of the same interval, any other Conditional is a Conditional
\* whose body is rewritten the same way, and a node that is not a loop is
\* itself
ScansReplaced(code, out) ==
    /\ Len(out) = Len(code)
    /\ \A i \in 1..Len(code) :
          IF code[i].op # "Conditional" THEN out[i] = code[i]
          ELSE IF Len(code[i].body) = 1 /\ code[i].body[1].op = "Shift"
          THEN out[i] = Scan(code[i].body[1].v)
          ELSE /\ out[i].op = "Conditional"
               /\ ScansReplaced(code[i].body, out[i].body)

\* C26: CollapseScanLoops replaces a Conditional by Scan(i), at every depth,
\* exactly when its body is the single node Shift(i); every other
\* Conditional stays a Conditional with its body processed the same way,
\* and no other node changes.
C26_ScanLoops ==
    (phase = "rewritten" /\ pass = "CollapseScanLoops") =>
        ScansReplaced(tree, optimized)

\* C26 witness: a loop of one move inside a loop that is not a scan was
\* replaced, next to a loop of two moves, which was kept.
C26_Witness ==
    /\ phase = "rewritten"
    /\ pass = "CollapseScanLoops"
    /\ tree = <<Conditional(<<Inc(1, 0, FALSE), Conditional(<<Shift(-1)>>)>>),
                Conditional(<<Shift(1), Shift(1)>>)>>
    /\ optimized = <<Conditional(<<Inc(1, 0, FALSE), Scan(-1)>>),
                     Conditional(<<Shift(1), Shift(1)>>)>>

\* C27 (as claimed): on a sequence whose moves and offsets lie in the signed
\* offset range, its limits included, every delta and offset computed by
\* MergeRepeatedOperators, CollapseOffsets and DeferMovements stays in the
\* range: no pass aborts and none returns a tree with a wrapped value.
C27_NoPassOverflows ==
    /\ phase # "aborted"
    /\ (phase = "rewritten" /\ pass = "CollapseOffsets") =>
           ~CollapseOffsets_overflows(<< >>, tree)
    /\ (phase = "rewritten" /\ pass = "DeferMovements") =>
           ~DeferMovements_overflows(tree)

(***************************************************************************)
(* Claims about termination, checked under SpecEquiv.                      *)
(***************************************************************************)

\* the results of a run that was not seen to return: it repeats a state for
\* ever, or it was cut short by the fuel
NotReturned == {"Diverges", "OutOfFuel"}

\* C28 (as claimed): for a parsed program, a State and an input, the run of
\* the tree optimized with all switches terminates exactly when the run of
\* the comment-stripped tree does: a run that repeats for ever in the one
\* does not return in the other.
C28_TerminationPreserved ==
    phase = "executed" =>
        /\ plain.result = "Diverges" => fast.result \in NotReturned
        /\ fast.result = "Diverges" => plain.result \in NotReturned

(***************************************************************************)
(* Claims about the parser at work, checked under SpecParse.               *)
(***************************************************************************)

\* the bytes parse_code has read
ReadSoFar == SubSeq(text, 1, consumed)

\* C29: while parse_code consumes its input the stack of pending body
\* sequences has length 1 + (number of '[' read) - (number of ']' read) and
\* is never empty, and parse_code never returns ParserError::Internal.
C29_ParserStack ==
    /\ phase = "parsing" =>
          /\ Len(nested_bodies) =
                 1 + Count(ReadSoFar, "[") - Count(ReadSoFar, "]")
          /\ nested_bodies # << >>
    /\ (phase = "parsed" /\ ~parsed.ok) => parsed.error # "Internal"

\* C29 witness: a loop was opened and closed and another one is open.
C29_Witness ==
    /\ phase = "parsing"
    /\ Count(ReadSoFar, "]") = 1
    /\ Count(ReadSoFar, "[") = 2
    /\ Len(nested_bodies) = 2

(***************************************************************************)
(* Claims about the analyzer, checked under SpecAnalyze.                   *)
(***************************************************************************)

\* the kinds of node
Kinds == {"Shift", "Inc", "Dec", "Mul", "Assign", "Scan", "Out", "In",
          "Comment", "Conditional"}

RECURSIVE NodesOfKinds(_, _)
\* the number of nodes of `code`, at every depth, whose kind is in `kinds`
NodesOfKinds(code, kinds) ==
    IF code = << >> THEN 0
    ELSE (IF Head(code).op \in kinds THEN 1 ELSE 0)
         + (IF Head(code).op = "Conditional"
            THEN NodesOfKinds(Head(code).body, kinds) ELSE 0)
         + NodesOfKinds(Tail(code), kinds)

\* the count the results report for a kind: the entry under the node of
\* that kind with its values, offsets and flags zeroed, 0 when there is
\* none
Reported(kind) ==
    LET k == CASE kind = "Shift" -> Shift(0)
               [] kind = "Inc" -> Inc(0, 0, FALSE)
               [] kind = "Dec" -> Dec(0, 0, FALSE)
               [] kind = "Mul" -> Mul(0, 0, 0, FALSE)
               [] kind = "Assign" -> Assign(0, 0, FALSE)
               [] kind = "Scan" -> Scan(0)
               [] kind = "Out" -> Out(0, FALSE)
               [] kind = "In" -> In(0, FALSE)
               [] kind = "Comment" -> Comment(" ")
               [] kind = "Conditional" -> Conditional(<< >>)
    IN  IF k \in DOMAIN results.nodes THEN results.nodes[k] ELSE 0

RECURSIVE SumOf(_)
\* the sum of the counts of a map
SumOf(nodes) ==
    IF DOMAIN nodes = {} THEN 0
    ELSE LET k == CHOOSE x \in DOMAIN nodes : TRUE IN
         nodes[k] + SumOf([x \in DOMAIN nodes \ {k} |-> nodes[x]])

\* C30 (as claimed): analyze returns total equal to the number of nodes of
\* the tree at all depths, and for each kind of instruction a count equal
\* to the number of nodes of that kind, whatever their values, offsets and
\* flags; the counts sum to total.
C30_AnalyzerCounts ==
    phase = "analyzed" =>
        /\ results.total = NodesOfKinds(tree, Kinds)
        /\ \A kind \in Kinds : Reported(kind) = NodesOfKinds(tree, {kind})
        /\ SumOf(results.nodes) = results.total

=============================================================================
